---- MODULE Spec2Model ----
(***************************************************************************)
(* togglsync: Toggl Track time entries mirrored into Google Calendar.      *)
(*                                                                         *)
(* The model covers the webhook ingress (sync/views.py), the entity store  *)
(* (sync/models.py), the debounced engine (sync/tasks.py), the calendar    *)
(* resolver (sync/services/resolver.py), the calendar adapter              *)
(* (sync/services/gcal.py) against a remote calendar, and the periodic     *)
(* validation pass registered in sync/apps.py.                             *)
(*                                                                         *)
(* Time is in seconds.  Null values: NoTime for a null datetime, NoId for  *)
(* a null integer id, NoCal for a null calendar reference, NoColor for a   *)
(* null colour id.                                                         *)
(***************************************************************************)
EXTENDS Integers, Sequences, FiniteSets, TLC

\* ------------------------------------------------------------------ bounds
\* the clock advances in steps of TickStep up to MaxTime; a behaviour holds at
\* most MaxEvents environment events (webhook deliveries, failing remote
\* calls, manual edits of the remote calendar, disconnects)
MaxTime == 120
TickStep == 60
MaxEvents == 3

\* webhook requests handled side by side in the ingress specification
MaxRequests == 3

\* --------------------------------------------------------------- constants
QCLUSTER_WAIT == 60
RunningPlaceholder == 60

NoTime == -1
NoId == 0
NoCal == "none"
NoColor == "none"
RunningColor == "8"

Users == {1, 2}
EntryIds == {1, 2}
Keys == Users \X EntryIds
CalIds == {"A", "B"}
ProjectIds == {7}

\* the entry the webhooks are about; entry 2 is there for the passes over
\* several entries
WebhookEntryIds == {1}

\* --------------------------------------------------------------- variables
VARIABLES
    now,          \* timezone.now()
    users,        \* users owning a workspace with a webhook token
    connected,    \* UserCredentials.is_connected per user
    calendars,    \* GoogleCal rows per user: [calendar_id, is_default]
    mappings,     \* EntityToCalMapping rows per user
    metadata,     \* TogglOrganization, TogglWorkspace, TogglProject rows per user
    entries,      \* TogglTimeEntry rows keyed by (user, toggl_id)
    queue,        \* django-q task queue (FIFO)
    schedules,    \* django-q Schedule rows
    remote,       \* Google Calendar: events per (user, calendar) and iCalUID
    run,          \* the single worker's current / last task execution
    attempts,     \* per entry: its last webhook, whether its webhooks so far
                  \* are one burst, the runs past the debounce gate, and the
                  \* updated_at its last deferral read
    eventsLeft,   \* remaining environment events
    rows,         \* the TogglTimeEntry table row by row (ingress specification)
    inflight,     \* webhook requests being handled (ingress specification)
    call          \* a function applied to arguments (functions specification)

setup == <<users, calendars, mappings, metadata>>

ingress == <<rows, inflight>>

\* what the steps of engine, scheduler and environment leave alone
aside == <<ingress, call>>

engine == <<now, setup, connected, entries, queue, schedules, remote, run,
            attempts, eventsLeft>>

vars == <<engine, aside>>

\* ------------------------------------------------------------ entity store
NoEntry ==
    [exists |-> FALSE, description |-> "", start_time |-> NoTime,
     end_time |-> NoTime, project_id |-> NoId, tag_ids |-> <<>>,
     calendar |-> NoCal, synced |-> FALSE, pending_deletion |-> FALSE,
     updated_at |-> 0]

\* str(n) of a non-negative integer: its decimal digits
RECURSIVE Digits(_)
Digits(n) == IF n < 10 THEN <<n>> ELSE Append(Digits(n \div 10), n % 10)

\* the key made of the last digit only
GcalEventIdShort(toggl_id) == <<"toggl", toggl_id % 10>>

\* TogglTimeEntry.gcal_event_id: "toggl" + str(toggl_id)
GcalEventId(toggl_id) == <<"toggl">> \o Digits(toggl_id)

\* Toggl ids of one, two and three digits
TogglIds == 1..120

\* gcal_event_id gives different entries different keys
KeysDistinct ==
    \A i, j \in TogglIds : i # j => GcalEventId(i) # GcalEventId(j)

Payload(description, start, stop, project_id, tag_ids) ==
    [description |-> description, start |-> start, stop |-> stop,
     project_id |-> project_id, tag_ids |-> tag_ids]

\* the time-entry payloads Toggl delivers: a stopped entry, the same entry
\* without description, still running, and filed under project 7
Payloads ==
    {Payload("Work", 10, 20, NoId, <<>>),
     Payload("", 10, 20, NoId, <<>>),
     Payload("Work", 10, NoTime, NoId, <<>>),
     Payload("Work", 10, 20, 7, <<>>)}

SeqToSet(s) == {s[i] : i \in 1..Len(s)}

\* the description as it is, without a placeholder
RawSummary(description) == description

\* summary = self.description or "(No description)"
Summary(description) ==
    IF description = "" THEN "(No description)" ELSE description

\* the mapping's colour kept for a running entry
GetGcalDataMapped(toggl_id, rec, color_id) ==
    [event_id    |-> GcalEventId(toggl_id),
     summary     |-> Summary(rec.description),
     start       |-> rec.start_time,
     end         |-> IF rec.end_time # NoTime THEN rec.end_time
                     ELSE rec.start_time + RunningPlaceholder,
     description |-> <<toggl_id, rec.project_id>>,
     color_id    |-> IF color_id # NoColor THEN color_id
                     ELSE IF rec.end_time = NoTime THEN RunningColor ELSE color_id]

\* TogglTimeEntry.get_gcal_data
GetGcalData(toggl_id, rec, color_id) ==
    [event_id    |-> GcalEventId(toggl_id),
     summary     |-> Summary(rec.description),
     start       |-> rec.start_time,
     end         |-> IF rec.end_time # NoTime THEN rec.end_time
                     ELSE rec.start_time + RunningPlaceholder,
     description |-> <<toggl_id, rec.project_id>>,
     color_id    |-> IF rec.end_time = NoTime THEN RunningColor ELSE color_id]

NoData ==
    [event_id |-> GcalEventId(NoId), summary |-> "", start |-> NoTime,
     end |-> NoTime, description |-> <<NoId, NoId>>, color_id |-> NoColor]

\* ---------------------------------------------------------------- resolver
NoMapping ==
    [entity_type |-> "none", entity_id |-> NoId, gcal |-> NoCal,
     color_id |-> NoColor, process_order |-> 0]

\* the order turned around
LastByOrder(ms) ==
    IF ms = {} THEN [entity_type |-> "none", entity_id |-> NoId, gcal |-> NoCal,
                     color_id |-> NoColor, process_order |-> 0]
    ELSE CHOOSE m \in ms : \A o \in ms : m.process_order >= o.process_order

\* .order_by("process_order").first()
FirstByOrder(ms) ==
    IF ms = {} THEN NoMapping
    ELSE CHOOSE m \in ms : \A o \in ms : m.process_order <= o.process_order

MappingsOf(u, type, ids) ==
    {m \in mappings[u] : m.entity_type = type /\ m.entity_id \in ids}

\* GoogleCal.get_default_for_user
GetDefaultForUser(u) ==
    LET ds == {c \in calendars[u] : c.is_default}
    IN  IF ds = {} THEN NoCal ELSE (CHOOSE c \in ds : TRUE).calendar_id

NotResolved == [found |-> FALSE, calendar |-> NoCal, color_id |-> NoColor]

Resolved(m) == [found |-> TRUE, calendar |-> m.gcal, color_id |-> m.color_id]

\* TogglWorkspace.objects.filter(user, toggl_id=workspace_id).first()
\*     .organization_id: the key of the TogglOrganization row, or NoId
OrganizationIdOf(u, workspace_id) ==
    LET ws == {w \in metadata[u].workspaces : w.toggl_id = workspace_id}
    IN  IF ws = {} THEN NoId ELSE (CHOOSE w \in ws : TRUE).organization_id

\* CalendarResolver.resolve; a key the time_entry dict lacks is NoId
Resolve(u, time_entry) ==
    LET tagm  == FirstByOrder(MappingsOf(u, "tag", SeqToSet(time_entry.tag_ids)))
        projm == FirstByOrder(MappingsOf(u, "project", {time_entry.project_id}))
        wsm   == FirstByOrder(MappingsOf(u, "workspace", {time_entry.workspace_id}))
        org   == OrganizationIdOf(u, time_entry.workspace_id)
        orgm  == FirstByOrder(MappingsOf(u, "organization", {org}))
        dflt  == GetDefaultForUser(u)
    IN  IF time_entry.tag_ids # <<>> /\ tagm # NoMapping THEN Resolved(tagm)
        ELSE IF time_entry.project_id # NoId /\ projm # NoMapping THEN Resolved(projm)
        ELSE IF time_entry.workspace_id # NoId /\ wsm # NoMapping THEN Resolved(wsm)
        ELSE IF time_entry.workspace_id # NoId /\ org # NoId /\ orgm # NoMapping
             THEN Resolved(orgm)
        ELSE IF dflt # NoCal
             THEN [found |-> TRUE, calendar |-> dflt, color_id |-> NoColor]
        ELSE NotResolved

\* --------------------------------------------------------- remote calendar
NoEvent ==
    [present |-> FALSE, id |-> <<NoCal, NoId>>, summary |-> "", start |-> NoTime,
     end |-> NoTime, description |-> <<NoId, NoId>>, color_id |-> NoColor]

Slots == Users \X CalIds \X EntryIds

\* the event stored under iCalUID "toggl<e>" in calendar c of user u
EventAt(u, c, e) == remote[<<u, c, e>>]

\* events().insert body built by GoogleCalendarService.create_event
NewEvent(c, e, data) ==
    [present |-> TRUE, id |-> <<c, e>>, summary |-> data.summary,
     start |-> data.start, end |-> data.end, description |-> data.description,
     color_id |-> data.color_id]

\* GoogleCalendarService.update_event: fields given as None are left alone
UpdatedEvent(ev, data) ==
    [ev EXCEPT !.summary = data.summary, !.start = data.start, !.end = data.end,
               !.description = data.description,
               !.color_id = IF data.color_id # NoColor THEN data.color_id ELSE @]

\* ------------------------------------------------------------------ worker
NoCalls == [find |-> 0, create |-> 0, update |-> 0, delete |-> 0]

\* what a run keeps of the row for its summary
Seen(rec) ==
    [synced |-> rec.synced, calendar |-> rec.calendar,
     pending_deletion |-> rec.pending_deletion, description |-> rec.description]

Idle ==
    [pc |-> "idle", user |-> 0, entry |-> NoId, ent |-> NoEntry, db |-> NoEntry,
     data |-> NoData, dest |-> NoCal, cur |-> <<NoCal, NoId>>, todo |-> {},
     since |-> 0, calls |-> NoCalls, failed |-> FALSE, raced |-> FALSE,
     nodest |-> FALSE, existed |-> FALSE, replaced |-> FALSE,
     before |-> Seen(NoEntry), after |-> Seen(NoEntry), vkey |-> <<0, NoId>>,
     vresult |-> "none", vstart |-> {}, verrors |-> {},
     unknown |-> [project |-> NoId, tags |-> {}], refreshed |-> FALSE]

TerminalPcs ==
    {"idle", "done", "deferred", "missing", "raised", "validated", "applied",
     "apply_raised"}

WorkerFree == run.pc \in TerminalPcs

RunKey == <<run.user, run.entry>>

\* the worker is inside process_time_entry_event for entry k
Processing(k) ==
    /\ run.pc \notin TerminalPcs
    /\ run.pc # "validate"
    /\ RunKey = k

\* a task execution ends: the working copies are dropped, the summary is kept
Ended(r, pc) ==
    [r EXCEPT !.pc = pc, !.ent = NoEntry, !.db = NoEntry, !.data = NoData,
              !.dest = NoCal, !.cur = <<NoCal, NoId>>, !.todo = {}]

\* a task on the broker: async_task of the webhook view, a fired Schedule
\* row, or a failed task delivered again
Task(u, e, via) == [user |-> u, entry |-> e, via |-> via]

\* a task of the admin action apply_mappings on the broker:
\* apply_mapping_to_entry with the mapping's calendar and colour
MappingTask(u, e, gcal, color_id) ==
    [user |-> u, entry |-> e, via |-> "apply", gcal |-> gcal,
     color_id |-> color_id]

\* a task that no created / updated webhook enqueued
NotSent == "(none)"

\* nothing has happened to the entry: no webhook, no run past the gate, no
\* deferral (seen is the updated_at the last deferral read; sent are the
\* descriptions in the payloads of the webhooks whose tasks are on the
\* broker, in order, and ran is that of the task taken last)
NoAttempts ==
    [last |-> NoTime, burst |-> TRUE, runs |-> 0, seen |-> NoTime,
     sent |-> <<>>, ran |-> NotSent]

\* the webhook view hands its task to the broker
Sent(att, description) == [att EXCEPT !.sent = Append(@, description)]

\* the worker takes a task from the broker
Taken(att, via) ==
    IF via = "webhook" /\ att.sent # <<>>
    THEN [att EXCEPT !.sent = Tail(@), !.ran = Head(att.sent)]
    ELSE [att EXCEPT !.ran = NotSent]

\* a webhook less than QCLUSTER_WAIT after the one before it continues the
\* burst, a later one ends it
Burst(a) ==
    [a EXCEPT !.last = now,
              !.burst = @ /\ (a.last = NoTime \/ now - a.last < QCLUSTER_WAIT)]

\* one environment event is spent
Event ==
    /\ eventsLeft > 0
    /\ eventsLeft' = eventsLeft - 1

\* the rows sync_toggl_metadata_for_user stores: an organization under its
\* own key (pk) and its Toggl id, a workspace with the key of its
\* organization, a project with the Toggl id of its workspace
Metadata(org_toggl_id) ==
    [organizations |-> {[pk |-> 1, toggl_id |-> org_toggl_id]},
     workspaces    |-> {[toggl_id |-> 10, organization_id |-> 1]},
     projects      |-> {[toggl_id |-> 7, workspace |-> 10]},
     tags          |-> {[toggl_id |-> 3, workspace |-> 10]}]

\* the rows of a user whose project and tag were created in Toggl after the
\* last metadata sync
StaleMetadata == [Metadata(100) EXCEPT !.projects = {}, !.tags = {}]

NoCall ==
    [fn |-> "none", entry |-> NoEntry, workspace_id |-> NoId,
     color_id |-> NoColor, resolved |-> NotResolved, data |-> NoData]

\* a webhook request: its position in toggl_webhook and what it carries
Requests == 1..MaxRequests

NoRequest ==
    [pc |-> "idle", user |-> 0, entry |-> NoId,
     payload |-> Payload("", NoTime, NoTime, NoId, <<>>), pk |-> 0,
     conflict |-> FALSE]

\* ------------------------------------------------------------------- Init
Cal(c, d) == [calendar_id |-> c, is_default |-> d]

ProjectToB ==
    [entity_type |-> "project", entity_id |-> 7, gcal |-> "B",
     color_id |-> "11", process_order |-> 1]

\* the calendars and mappings a user has set up: a default calendar alone,
\* a default calendar and a project mapping, a project mapping alone
Setups ==
    {[calendars |-> {Cal("A", TRUE), Cal("B", FALSE)}, mappings |-> {}],
     [calendars |-> {Cal("A", TRUE), Cal("B", FALSE)}, mappings |-> {ProjectToB}],
     [calendars |-> {Cal("A", FALSE), Cal("B", FALSE)}, mappings |-> {ProjectToB}]}

InitCommon ==
    /\ now = 0
    /\ \E s \in Setups :
          /\ calendars = [u \in Users |-> s.calendars]
          /\ mappings = [u \in Users |-> s.mappings]
    /\ \E m \in {Metadata(100), StaleMetadata} : metadata = [u \in Users |-> m]
    /\ connected = [u \in Users |-> TRUE]
    /\ entries = [k \in Keys |-> NoEntry]
    /\ queue = <<>>
    /\ schedules = {}
    /\ remote = [s \in Slots |-> NoEvent]
    /\ run = Idle
    /\ attempts = [k \in Keys |-> NoAttempts]
    /\ eventsLeft = MaxEvents
    /\ call = NoCall
    /\ rows = {}
    /\ inflight = [r \in Requests |-> NoRequest]

Init ==
    /\ InitCommon
    /\ users = {1}

\* ---------------------------------------------------------------- ingress
\* the row after update_or_create(user, toggl_id, defaults): created if
\* missing, the defaults written, updated_at set by the save
Upserted(rec, p) ==
    [rec EXCEPT !.exists = TRUE,
                !.description = p.description,
                !.start_time = p.start,
                !.end_time = p.stop,
                !.project_id = p.project_id,
                !.tag_ids = p.tag_ids,
                !.synced = FALSE,
                !.pending_deletion = FALSE,
                !.updated_at = now]

\* toggl_webhook, action created / updated: update_or_create + async_task
WebhookUpsert(u, e, action, p) ==
    /\ u \in users
    /\ Event
    /\ entries' = [entries EXCEPT ![<<u, e>>] = Upserted(@, p)]
    /\ queue' = Append(queue, Task(u, e, "webhook"))
    /\ attempts' = [attempts EXCEPT ![<<u, e>>] = Sent(Burst(@), p.description)]
    /\ run' = IF Processing(<<u, e>>) THEN [run EXCEPT !.raced = TRUE] ELSE run
    /\ UNCHANGED <<aside, now, setup, connected, schedules, remote>>

\* the deletion forgets the calendar as well
ForgottenForDeletion(rec) ==
    [rec EXCEPT !.pending_deletion = TRUE, !.synced = FALSE, !.calendar = "none"]

\* .update(pending_deletion=True, synced=False): a queryset update, no other
\* column is written (updated_at is not touched)
MarkedForDeletion(rec) ==
    [rec EXCEPT !.pending_deletion = TRUE, !.synced = FALSE]

\* toggl_webhook, action deleted: filter(user, toggl_id).update(...) on the
\* rows there are + async_task
WebhookDeleted(u, e) ==
    /\ u \in users
    /\ Event
    /\ entries' = [entries EXCEPT ![<<u, e>>] =
                      IF @.exists THEN MarkedForDeletion(@) ELSE @]
    /\ queue' = Append(queue, Task(u, e, "webhook"))
    /\ attempts' = [attempts EXCEPT ![<<u, e>>] = Sent(Burst(@), NotSent)]
    /\ UNCHANGED <<aside, now, setup, connected, schedules, remote, run>>

\* ------------------------------------------------------------------ clock
Tick ==
    /\ now + TickStep <= MaxTime
    /\ now' = now + TickStep
    /\ UNCHANGED <<aside, setup, connected, entries, queue, schedules, remote, run,
                   attempts, eventsLeft>>

\* -------------------------------------------------------------- scheduler
\* a plain create: a row is added whatever rows there are
CreateSchedule(scheds, name, args, next_run) ==
    scheds \cup {[name |-> name, args |-> args, next_run |-> next_run]}

\* Schedule.objects.update_or_create(name=..., defaults=...)
UpdateOrCreateSchedule(scheds, name, args, next_run) ==
    {s \in scheds : s.name # name}
        \cup {[name |-> name, args |-> args, next_run |-> next_run]}

\* a due Schedule.ONCE row is turned into a task and removed
FireSchedule(s) ==
    /\ s \in schedules
    /\ s.next_run <= now
    /\ queue' = Append(queue, Task(s.args[1], s.args[2], "schedule"))
    /\ schedules' = schedules \ {s}
    /\ UNCHANGED <<aside, now, setup, connected, entries, remote, run, attempts,
                   eventsLeft>>

\* ----------------------------------------------------------------- engine
\* the comparison turned around
DeferWhenQuiet(since) == since > QCLUSTER_WAIT

\* time_since_update < wait_time
ShouldDefer(since) == since < QCLUSTER_WAIT

\* half of what is left of the quiet window
RemainingHalf(since) == ((QCLUSTER_WAIT - since) \div 2) + 1

\* remaining = int(wait_time - time_since_update) + 1
Remaining(since) == (QCLUSTER_WAIT - since) + 1

\* the same in tenths of a second, where int() cuts the fraction off
RemainingTenths(since) == (((QCLUSTER_WAIT * 10 - since) \div 10) + 1) * 10

\* whatever fraction of a second the entry's age has at the deferral, the
\* quiet window is over at next_run
RecheckDue ==
    \A since \in 0..(QCLUSTER_WAIT * 10 - 1) :
        since + RemainingTenths(since) >= QCLUSTER_WAIT * 10

\* the time_entry dict process_time_entry_event builds from the row
TimeEntryDict(toggl_id, rec) ==
    [id |-> toggl_id, description |-> rec.description,
     start |-> rec.start_time, stop |-> rec.end_time,
     project_id |-> rec.project_id, tag_ids |-> rec.tag_ids]

\* dict.get(key): None for a key the dict does not have
DictGet(d, key) == IF key \in DOMAIN d THEN d[key] ELSE NoId

NoUnknown == [project |-> NoId, tags |-> {}]

\* check_unknown_entities: the project and the tags of the dict that have no
\* row of the user (the workspace is looked for only if the dict names one)
CheckUnknownEntities(time_entry, u) ==
    [project |-> IF /\ DictGet(time_entry, "project_id") # NoId
                    /\ ~\E p \in metadata[u].projects :
                            p.toggl_id = DictGet(time_entry, "project_id")
                 THEN DictGet(time_entry, "project_id") ELSE NoId,
     tags    |-> {t \in SeqToSet(time_entry.tag_ids) :
                     ~\E row \in metadata[u].tags : row.toggl_id = t}]

\* refresh_metadata_for_workspace: the projects and tags Toggl has for the
\* workspace are stored, when the workspace has a row
RefreshMetadataForWorkspace(u, workspace_id) ==
    IF \E w \in metadata[u].workspaces : w.toggl_id = workspace_id
    THEN [metadata EXCEPT
            ![u].projects = @ \cup {p \in Metadata(100).projects :
                                       p.workspace = workspace_id},
            ![u].tags = @ \cup {t \in Metadata(100).tags :
                                   t.workspace = workspace_id}]
    ELSE metadata

\* process_time_entry_event up to the debounce gate: fetch the entry, defer
\* (update_or_create of the entry's Schedule) or go on to the handlers.
\* check_unknown_entities follows the gate; the refresh is made for the
\* workspace_id (or wid) of the time_entry dict.
StartRun ==
    /\ WorkerFree
    /\ queue # <<>>
    /\ Head(queue).via # "apply"
    /\ LET t     == Head(queue)
           k     == <<t.user, t.entry>>
           rec   == entries[k]
           since == now - rec.updated_at
           fresh == [Idle EXCEPT !.user = t.user, !.entry = t.entry,
                                 !.before = Seen(rec), !.after = Seen(rec)]
           time_entry == TimeEntryDict(t.entry, rec)
           unknown == CheckUnknownEntities(time_entry, t.user)
           ws_id == IF DictGet(time_entry, "workspace_id") # NoId
                    THEN DictGet(time_entry, "workspace_id")
                    ELSE DictGet(time_entry, "wid")
           refresh == unknown # NoUnknown /\ ws_id # NoId
       IN  /\ queue' = Tail(queue)
           /\ IF ~rec.exists
              THEN /\ run' = Ended(fresh, "missing")
                   /\ attempts' = [attempts EXCEPT ![k] = Taken(@, t.via)]
                   /\ UNCHANGED <<schedules, metadata>>
              ELSE IF ShouldDefer(since)
              THEN /\ schedules' = UpdateOrCreateSchedule(schedules, t.entry,
                                       <<t.user, t.entry>>, now + Remaining(since))
                   /\ run' = Ended([fresh EXCEPT !.since = since,
                                 !.replaced = \E s \in schedules : s.name = t.entry],
                                   "deferred")
                   /\ attempts' = [attempts EXCEPT ![k] =
                                      [Taken(@, t.via) EXCEPT !.seen = rec.updated_at]]
                   /\ UNCHANGED metadata
              ELSE /\ run' = [fresh EXCEPT !.pc = "dispatch", !.ent = rec,
                                           !.since = since, !.unknown = unknown,
                                           !.refreshed = refresh]
                   /\ metadata' = IF refresh
                                  THEN RefreshMetadataForWorkspace(t.user, ws_id)
                                  ELSE metadata
                   /\ attempts' = [attempts EXCEPT ![k] =
                                      [Taken(@, t.via) EXCEPT !.runs =
                                          IF t.via # "retry" /\ @ < 2 THEN @ + 1
                                          ELSE @]]
                   /\ UNCHANGED schedules
    /\ UNCHANGED <<aside, now, users, calendars, mappings, connected, entries,
                   remote, eventsLeft>>

\* the exception leaves process_time_entry_event (re-raised): the task is
\* marked failed, is not acknowledged and is delivered again (Q_CLUSTER retry)
Raise(r) ==
    /\ run' = Ended([r EXCEPT !.after = Seen(entries[<<r.user, r.entry>>])], "raised")
    /\ queue' = Append(queue, Task(r.user, r.entry, "retry"))

\* GoogleCalendarService(user): loading the stored credentials fails when the
\* user is not connected
GcalAvailable(u) == connected[u]

\* the time_entry dict built from the entry fetched before the gate: it has
\* no workspace_id key
TimeEntry(rec) ==
    [project_id |-> rec.project_id, tag_ids |-> rec.tag_ids,
     workspace_id |-> NoId]

\* _handle_deleted: the entry is read again; with a calendar on file the
\* event is looked up, otherwise nothing is done
EnterDeleted(r, db) ==
    IF db.calendar # NoCal
    THEN IF GcalAvailable(r.user)
         THEN /\ run' = [r EXCEPT !.pc = "del_find", !.db = db]
              /\ UNCHANGED queue
         ELSE Raise(r)
    ELSE /\ run' = [r EXCEPT !.pc = "finish", !.db = db]
         /\ UNCHANGED queue

\* _handle_created rendering the description that came with the webhook
EnterCreatedFromPayload(r, db) ==
    LET resolved == Resolve(r.user, TimeEntry(r.ent))
        ran      == attempts[<<r.user, r.entry>>].ran
        sent     == IF ran # NotSent THEN [db EXCEPT !.description = ran] ELSE db
    IN  IF ~resolved.found
        THEN /\ run' = [r EXCEPT !.pc = "finish", !.db = db, !.nodest = TRUE]
             /\ UNCHANGED queue
        ELSE IF GcalAvailable(r.user)
        THEN /\ run' = [r EXCEPT !.pc = "create", !.db = db,
                          !.dest = resolved.calendar,
                          !.data = GetGcalData(r.entry, sent, resolved.color_id)]
             /\ UNCHANGED queue
        ELSE Raise(r)

\* _handle_created: resolve, render, then create
EnterCreated(r, db) ==
    LET resolved == Resolve(r.user, TimeEntry(r.ent))
    IN  IF ~resolved.found
        THEN /\ run' = [r EXCEPT !.pc = "finish", !.db = db, !.nodest = TRUE]
             /\ UNCHANGED queue
        ELSE IF GcalAvailable(r.user)
        THEN /\ run' = [r EXCEPT !.pc = "create", !.db = db,
                          !.dest = resolved.calendar,
                          !.data = GetGcalData(r.entry, db, resolved.color_id)]
             /\ UNCHANGED queue
        ELSE Raise(r)

\* _handle_updated up to the lookup of the current event
EnterUpdated(r, db) ==
    LET resolved == Resolve(r.user, TimeEntry(r.ent))
    IN  IF db.calendar = NoCal THEN EnterCreated(r, db)
        ELSE IF db.end_time = NoTime THEN EnterDeleted(r, db)
        ELSE IF ~resolved.found THEN EnterDeleted([r EXCEPT !.nodest = TRUE], db)
        ELSE IF GcalAvailable(r.user)
        THEN /\ run' = [r EXCEPT !.pc = "upd_find", !.db = db,
                          !.dest = resolved.calendar,
                          !.data = GetGcalData(r.entry, db, resolved.color_id)]
             /\ UNCHANGED queue
        ELSE Raise(r)

\* process_time_entry_event: branch on the fetched entry; every handler
\* reads the row again
Dispatch ==
    /\ run.pc = "dispatch"
    /\ LET db == entries[RunKey]
       IN  IF run.ent.pending_deletion THEN EnterDeleted(run, db)
           ELSE IF run.ent.calendar # NoCal THEN EnterUpdated(run, db)
           ELSE EnterCreated(run, db)
    /\ UNCHANGED <<aside, now, setup, connected, entries, schedules, remote, attempts,
                   eventsLeft>>

Called(r, op) == [r EXCEPT !.calls[op] = @ + 1]

Failed(r, op) == [Called(r, op) EXCEPT !.failed = TRUE]

\* gcal.find_event_by_ical_uid in _handle_updated, then the branch on the
\* calendar on file against the resolved one
UpdFind ==
    /\ run.pc = "upd_find"
    /\ \/ /\ Event
          /\ Raise(Failed(run, "find"))
       \/ /\ LET ev == EventAt(run.user, run.db.calendar, run.entry)
                 r  == [Called(run, "find") EXCEPT !.cur = ev.id,
                                                   !.existed = ev.present]
             IN  run' = [r EXCEPT !.pc =
                           IF run.db.calendar # run.dest
                           THEN IF ev.present THEN "mv_delete" ELSE "create"
                           ELSE IF ev.present THEN "update" ELSE "create"]
          /\ UNCHANGED <<queue, eventsLeft>>
    /\ UNCHANGED <<aside, now, setup, connected, entries, schedules, remote, attempts>>

\* a delete that reports success and removes nothing
KeepEvent(u, c, e, id) == remote

\* GoogleCalendarService.delete_event: a missing event (404) is not an error
DeleteEvent(u, c, e, id) ==
    IF EventAt(u, c, e).present /\ EventAt(u, c, e).id = id
    THEN [remote EXCEPT ![<<u, c, e>>] = NoEvent]
    ELSE remote

\* the delete of the old event in a calendar move: a failure is logged only
MvDelete ==
    /\ run.pc = "mv_delete"
    /\ \/ /\ Event
          /\ run' = [Failed(run, "delete") EXCEPT !.pc = "create"]
          /\ UNCHANGED remote
       \/ /\ remote' = DeleteEvent(run.user, run.db.calendar, run.entry, run.cur)
          /\ run' = [Called(run, "delete") EXCEPT !.pc = "create"]
          /\ UNCHANGED eventsLeft
    /\ UNCHANGED <<aside, now, setup, connected, entries, queue, schedules, attempts>>

\* GoogleCalendarService.create_event: insert; on 409 (the iCalUID is taken)
\* the existing event is looked up and returned as it is
CreateEvent(u, c, e, data) ==
    IF EventAt(u, c, e).present THEN remote
    ELSE [remote EXCEPT ![<<u, c, e>>] = NewEvent(c, e, data)]

\* gcal.create_event of _handle_created and of both branches of _handle_updated
Create ==
    /\ run.pc = "create"
    /\ \/ /\ Event
          /\ Raise(Failed(run, "create"))
          /\ UNCHANGED remote
       \/ /\ remote' = CreateEvent(run.user, run.dest, run.entry, run.data)
          /\ run' = [Called(run, "create") EXCEPT !.pc = "finish"]
          /\ UNCHANGED <<queue, eventsLeft>>
    /\ UNCHANGED <<aside, now, setup, connected, entries, schedules, attempts>>

\* gcal.update_event on the event found: events().get of a vanished event
\* is an HttpError, raised as GoogleCalendarError
Update ==
    /\ run.pc = "update"
    /\ LET ev == EventAt(run.user, run.db.calendar, run.entry)
       IN  \/ /\ Event
              /\ Raise(Failed(run, "update"))
              /\ UNCHANGED remote
           \/ /\ ~(ev.present /\ ev.id = run.cur)
              /\ Raise(Failed(run, "update"))
              /\ UNCHANGED <<remote, eventsLeft>>
           \/ /\ ev.present /\ ev.id = run.cur
              /\ remote' = [remote EXCEPT
                              ![<<run.user, run.db.calendar, run.entry>>] =
                                  UpdatedEvent(ev, run.data)]
              /\ run' = [Called(run, "update") EXCEPT !.pc = "finish"]
              /\ UNCHANGED <<queue, eventsLeft>>
    /\ UNCHANGED <<aside, now, setup, connected, entries, schedules, attempts>>

\* gcal.find_event_by_ical_uid in _handle_deleted (outside its try block)
DelFind ==
    /\ run.pc = "del_find"
    /\ \/ /\ Event
          /\ Raise(Failed(run, "find"))
       \/ /\ LET ev == EventAt(run.user, run.db.calendar, run.entry)
             IN  run' = [Called(run, "find") EXCEPT
                           !.cur = ev.id, !.existed = ev.present,
                           !.pc = IF ev.present THEN "del_delete" ELSE "finish"]
          /\ UNCHANGED <<queue, eventsLeft>>
    /\ UNCHANGED <<aside, now, setup, connected, entries, schedules, remote, attempts>>

\* gcal.delete_event in _handle_deleted: a failure is logged only
DelDelete ==
    /\ run.pc = "del_delete"
    /\ \/ /\ Event
          /\ run' = [Failed(run, "delete") EXCEPT !.pc = "finish"]
          /\ UNCHANGED remote
       \/ /\ remote' = DeleteEvent(run.user, run.db.calendar, run.entry, run.cur)
          /\ run' = [Called(run, "delete") EXCEPT !.pc = "finish"]
          /\ UNCHANGED eventsLeft
    /\ UNCHANGED <<aside, now, setup, connected, entries, queue, schedules, attempts>>

\* the row of a deleted entry is dropped once its run is over
PurgedEntry(rec, r) ==
    IF rec.pending_deletion THEN NoEntry
    ELSE [rec EXCEPT !.calendar = IF r.dest # NoCal THEN r.dest ELSE @,
                     !.synced = TRUE]

\* the row as the handlers and process_time_entry_event save it: a handler
\* that created or updated an event saves calendar and synced, and
\* process_time_entry_event then saves synced = True in every case
\* a save() of the copy the run holds, without update_fields
SavedWhole(rec, r) ==
    [r.db EXCEPT !.calendar = IF r.dest # NoCal THEN r.dest ELSE @,
                 !.synced = TRUE,
                 !.updated_at = now]

SavedEntry(rec, r) ==
    [rec EXCEPT !.calendar = IF r.dest # NoCal THEN r.dest ELSE @,
                !.synced = TRUE]

\* the saves that end a run that did not raise
Finish ==
    /\ run.pc = "finish"
    /\ entries' = [entries EXCEPT ![RunKey] = SavedEntry(@, run)]
    /\ run' = Ended([run EXCEPT !.after = Seen(SavedEntry(entries[RunKey], run))],
                    "done")
    /\ UNCHANGED <<aside, now, setup, connected, queue, schedules, remote, attempts,
                   eventsLeft>>

\* ------------------------------------------------------------- validation
\* every synced entry, whoever owns it and whatever is pending
SyncedEntries ==
    {k \in Keys : entries[k].exists /\ entries[k].synced}

\* validate_synced_events, the periodic task registered by _setup_schedules:
\* the synced, not pending_deletion entries of the connected users
ValidationCandidates ==
    {k \in Keys : /\ k[1] \in users
                  /\ connected[k[1]]
                  /\ entries[k].exists
                  /\ entries[k].synced
                  /\ ~entries[k].pending_deletion}

StartValidate ==
    /\ WorkerFree
    /\ run' = [Idle EXCEPT !.pc = "validate", !.todo = ValidationCandidates,
                           !.vstart = ValidationCandidates]
    /\ UNCHANGED <<aside, now, setup, connected, entries, queue, schedules, remote,
                   attempts, eventsLeft>>

\* the event the validation pass finds for an entry, by its stable key in
\* the calendar on file
LookedUp(k) ==
    IF entries[k].calendar = NoCal THEN NoEvent
    ELSE EventAt(k[1], entries[k].calendar, k[2])

\* drift: no event, or a summary that is not the rendering of the description
Drifted(k) ==
    \/ ~LookedUp(k).present
    \/ LookedUp(k).summary # Summary(entries[k].description)

\* the failure ends the pass
AbortedAt(r, k) ==
    [r EXCEPT !.todo = {}, !.vkey = k, !.vresult = "error",
              !.verrors = @ \cup {k}]

\* a failing lookup is logged and the entry skipped
SkippedAt(r, k) ==
    [r EXCEPT !.todo = @ \ {k}, !.vkey = k, !.vresult = "error",
              !.verrors = @ \cup {k}]

\* one entry of the pass
ValidateEntry(k) ==
    /\ run.pc = "validate"
    /\ k \in run.todo
    /\ \/ /\ Event
          /\ run' = SkippedAt(run, k)
          /\ UNCHANGED entries
       \/ /\ entries' = [entries EXCEPT ![k].synced = IF Drifted(k) THEN FALSE ELSE @]
          /\ run' = [run EXCEPT !.todo = @ \ {k}, !.vkey = k,
                       !.vresult = IF Drifted(k) THEN "cleared" ELSE "kept"]
          /\ UNCHANGED eventsLeft
    /\ UNCHANGED <<aside, now, setup, connected, queue, schedules, remote, attempts>>

EndValidate ==
    /\ run.pc = "validate"
    /\ run.todo = {}
    /\ run' = Ended(run, "validated")
    /\ UNCHANGED <<aside, now, setup, connected, entries, queue, schedules, remote,
                   attempts, eventsLeft>>

\* ------------------------------------------------------- mappings in bulk
\* EntityToCalMapping.find_matching_entries: the synced entries, not pending
\* deletion, filed under the mapping's entity
FindMatchingEntries(u, m) ==
    {k \in Keys :
        /\ k[1] = u
        /\ entries[k].exists
        /\ entries[k].synced
        /\ ~entries[k].pending_deletion
        /\ CASE m.entity_type = "project" -> entries[k].project_id = m.entity_id
             [] m.entity_type = "tag" -> m.entity_id \in SeqToSet(entries[k].tag_ids)
             [] m.entity_type = "workspace" ->
                    \E p \in metadata[u].projects :
                        /\ p.toggl_id = entries[k].project_id
                        /\ p.workspace = m.entity_id
             [] m.entity_type = "organization" ->
                    \E p \in metadata[u].projects, w \in metadata[u].workspaces,
                       o \in metadata[u].organizations :
                        /\ p.toggl_id = entries[k].project_id
                        /\ p.workspace = w.toggl_id
                        /\ w.organization_id = o.pk
                        /\ o.toggl_id = m.entity_id
             [] OTHER -> FALSE}

RECURSIVE TasksOfEntries(_, _)
TasksOfEntries(ks, m) ==
    IF ks = {} THEN <<>>
    ELSE LET k == CHOOSE x \in ks : TRUE
         IN  <<MappingTask(k[1], k[2], m.gcal, m.color_id)>>
                 \o TasksOfEntries(ks \ {k}, m)

\* the tasks of apply_mappings: the mappings from high to low process_order,
\* for each its matching entries
RECURSIVE TasksOfMappings(_, _)
TasksOfMappings(u, ms) ==
    IF ms = {} THEN <<>>
    ELSE LET m == CHOOSE x \in ms : \A o \in ms : x.process_order >= o.process_order
         IN  TasksOfEntries(FindMatchingEntries(u, m), m)
                 \o TasksOfMappings(u, ms \ {m})

\* CalendarMappingAdmin.apply_mappings, run by the user in the admin
ApplyMappings(u) ==
    /\ u \in users
    /\ TasksOfMappings(u, mappings[u]) # <<>>
    /\ Event
    /\ queue' = queue \o TasksOfMappings(u, mappings[u])
    /\ UNCHANGED <<aside, now, setup, connected, entries, schedules, remote, run,
                   attempts>>

\* the branch "no calendar assigned: create the event" of
\* apply_mapping_to_entry made live
MarkedEntry(rec, found) == [rec EXCEPT !.synced = found]

\* the row as apply_mapping_to_entry saves it: synced is cleared when the
\* event is not found, and left alone otherwise
AppliedEntry(rec, found) == [rec EXCEPT !.synced = IF found THEN @ ELSE FALSE]

\* apply_mapping_to_entry: an entry without calendar is skipped; loading the
\* credentials of a user who is not connected raises; the event is looked
\* up in the calendar on file; a move to another calendar calls
\* gcal.move_event, which GoogleCalendarService does not have (the
\* AttributeError is re-raised); otherwise the colour is updated.  A failing
\* remote call is logged, and clears synced when its message names a 404.
ApplyMappingToEntry ==
    /\ WorkerFree
    /\ queue # <<>>
    /\ Head(queue).via = "apply"
    /\ LET t     == Head(queue)
           k     == <<t.user, t.entry>>
           rec   == entries[k]
           ev    == IF rec.calendar = NoCal THEN NoEvent
                    ELSE EventAt(t.user, rec.calendar, t.entry)
           fresh == [Idle EXCEPT !.user = t.user, !.entry = t.entry,
                                 !.before = Seen(rec), !.after = Seen(rec)]
       IN  IF ~rec.exists \/ rec.calendar = NoCal
           THEN /\ run' = Ended(fresh, "applied")
                /\ queue' = Tail(queue)
                /\ UNCHANGED <<entries, remote, eventsLeft>>
           ELSE IF ~GcalAvailable(t.user)
           THEN /\ run' = Ended(fresh, "apply_raised")
                /\ queue' = Append(Tail(queue), t)
                /\ UNCHANGED <<entries, remote, eventsLeft>>
           ELSE \/ /\ Event
                   /\ \E named404 \in BOOLEAN :
                         /\ entries' = [entries EXCEPT ![k] = AppliedEntry(@, ~named404)]
                         /\ run' = Ended([Failed(fresh, "find") EXCEPT !.after =
                                            Seen(AppliedEntry(rec, ~named404))],
                                         "applied")
                   /\ queue' = Tail(queue)
                   /\ UNCHANGED remote
                \/ /\ ~ev.present
                   /\ entries' = [entries EXCEPT ![k] = AppliedEntry(@, FALSE)]
                   /\ run' = Ended([Called(fresh, "find") EXCEPT !.after =
                                      Seen(AppliedEntry(rec, FALSE))], "applied")
                   /\ queue' = Tail(queue)
                   /\ UNCHANGED <<remote, eventsLeft>>
                \/ /\ ev.present
                   /\ rec.calendar # t.gcal
                   /\ run' = Ended([Called(fresh, "find") EXCEPT !.existed = TRUE],
                                   "apply_raised")
                   /\ queue' = Append(Tail(queue), t)
                   /\ UNCHANGED <<entries, remote, eventsLeft>>
                \/ /\ ev.present
                   /\ rec.calendar = t.gcal
                   /\ remote' = [remote EXCEPT ![<<t.user, rec.calendar, t.entry>>] =
                                    [@ EXCEPT !.color_id = t.color_id]]
                   /\ entries' = [entries EXCEPT ![k] = AppliedEntry(@, TRUE)]
                   /\ run' = Ended([Called(Called(fresh, "find"), "update")
                                      EXCEPT !.existed = TRUE], "applied")
                   /\ queue' = Tail(queue)
                   /\ UNCHANGED eventsLeft
    /\ UNCHANGED <<aside, now, setup, connected, schedules, attempts>>

\* ------------------------------------------------------------- environment
\* the calendar's owner deletes an event by hand
ExternalDelete(s) ==
    /\ Event
    /\ remote[s].present
    /\ remote' = [remote EXCEPT ![s] = NoEvent]
    /\ UNCHANGED <<aside, now, setup, connected, entries, queue, schedules, run, attempts>>

\* the calendar's owner renames an event by hand
ExternalEdit(s) ==
    /\ Event
    /\ remote[s].present
    /\ remote[s].summary # "Edited"
    /\ remote' = [remote EXCEPT ![s].summary = "Edited"]
    /\ UNCHANGED <<aside, now, setup, connected, entries, queue, schedules, run, attempts>>

\* google_oauth_disconnect clears the stored credentials
Disconnect(u) ==
    /\ Event
    /\ u \in users
    /\ connected[u]
    /\ connected' = [connected EXCEPT ![u] = FALSE]
    /\ UNCHANGED <<aside, now, setup, entries, queue, schedules, remote, run, attempts>>

\* ------------------------------------------------------------------- Next
Next ==
    \/ Tick
    \/ \E u \in Users, e \in WebhookEntryIds, a \in {"created", "updated"},
          p \in Payloads :
          WebhookUpsert(u, e, a, p)
    \/ \E u \in Users, e \in WebhookEntryIds : WebhookDeleted(u, e)
    \/ \E s \in schedules : FireSchedule(s)
    \/ StartRun
    \/ Dispatch
    \/ UpdFind
    \/ MvDelete
    \/ Create
    \/ Update
    \/ DelFind
    \/ DelDelete
    \/ Finish
    \/ StartValidate
    \/ \E k \in Keys : ValidateEntry(k)
    \/ EndValidate
    \/ \E u \in Users : ApplyMappings(u)
    \/ ApplyMappingToEntry
    \/ \E s \in Slots : ExternalDelete(s)
    \/ \E s \in Slots : ExternalEdit(s)
    \/ \E u \in Users : Disconnect(u)

Spec == Init /\ [][Next]_vars

\* the worker and the scheduler keep running and a queued task gets its turn
\* (the queue is served in order); the environment owes nothing
FairSpec ==
    /\ Spec
    /\ WF_vars(Tick)
    /\ WF_vars(\E s \in schedules : FireSchedule(s))
    /\ SF_vars(StartRun)
    /\ WF_vars(Dispatch)
    /\ WF_vars(UpdFind)
    /\ WF_vars(MvDelete)
    /\ WF_vars(Create)
    /\ WF_vars(Update)
    /\ WF_vars(DelFind)
    /\ WF_vars(DelDelete)
    /\ WF_vars(Finish)
    /\ WF_vars(StartValidate)
    /\ WF_vars(\E k \in Keys : ValidateEntry(k))
    /\ WF_vars(EndValidate)
    /\ WF_vars(ApplyMappingToEntry)

\* ------------------------------------------------- two users side by side
\* both users own a workspace with a webhook, a default calendar A and a
\* mapping of project 7 to calendar B, and both have an entry with Toggl id 1
SharedPayloads ==
    {Payload("Work", 10, 20, NoId, <<>>), Payload("Work", 10, 20, 7, <<>>)}

IsolationInit ==
    /\ now = 0
    /\ users = Users
    /\ calendars = [u \in Users |-> {Cal("A", TRUE), Cal("B", FALSE)}]
    /\ mappings = [u \in Users |-> {ProjectToB}]
    /\ metadata = [u \in Users |-> Metadata(100)]
    /\ connected = [u \in Users |-> TRUE]
    /\ entries = [k \in Keys |-> NoEntry]
    /\ queue = <<>>
    /\ schedules = {}
    /\ remote = [sl \in Slots |-> NoEvent]
    /\ run = Idle
    /\ attempts = [k \in Keys |-> NoAttempts]
    /\ eventsLeft = MaxEvents
    /\ call = NoCall
    /\ rows = {}
    /\ inflight = [r \in Requests |-> NoRequest]

IsolationNext ==
    \/ Tick
    \/ \E u \in Users, e \in WebhookEntryIds, a \in {"created", "updated"},
          p \in SharedPayloads :
          WebhookUpsert(u, e, a, p)
    \/ \E u \in Users, e \in WebhookEntryIds : WebhookDeleted(u, e)
    \/ \E sc \in schedules : FireSchedule(sc)
    \/ StartRun
    \/ Dispatch
    \/ UpdFind
    \/ MvDelete
    \/ Create
    \/ Update
    \/ DelFind
    \/ DelDelete
    \/ Finish
    \/ \E u \in Users : ApplyMappings(u)
    \/ ApplyMappingToEntry

IsolationSpec == IsolationInit /\ [][IsolationNext]_vars

\* ------------------------------------------------- the calendar adapter
\* GoogleCalendarService and the credential store: call holds the stored
\* credential (UserCredentials.gauth_credentials_json), the credential of
\* the service object (self.credentials), the last operation and what it
\* did in order: "refresh", "save", "remote" (a remote call with a valid
\* token), "remote_expired" (one with an expired token)
Credential(token, expiry) == [token |-> token, expiry |-> expiry]

\* the lifetimes Google gives a refreshed access token
TokenLifetimes == {60, 120}

\* Credentials.expired
Expired(cred) == now >= cred.expiry

\* the token is refreshed and the store is not written
RefreshedUnsaved(a, lifetime) ==
    IF Expired(a.memory)
    THEN [a EXCEPT !.memory = Credential(@.token + 1, now + lifetime),
                   !.trace = Append(@, "refresh")]
    ELSE a

\* _refresh_maybe: an expired credential is refreshed and written to the
\* store; a valid one is left alone
RefreshMaybe(a, lifetime) ==
    IF Expired(a.memory)
    THEN [a EXCEPT !.memory = Credential(@.token + 1, now + lifetime),
                   !.stored = Credential(a.memory.token + 1, now + lifetime),
                   !.trace = @ \o <<"refresh", "save">>]
    ELSE a

\* service...execute() with the credential of the service object
RemoteCall(a) ==
    [a EXCEPT !.trace = Append(@, IF Expired(a.memory) THEN "remote_expired"
                                  ELSE "remote")]

\* the operations of the adapter, each with the remote calls that follow
\* its _refresh_maybe: update_event gets the event and then updates it
AdapterOps ==
    {"get_calendar", "create_event", "update_event", "delete_event",
     "get_event", "find_event_by_ical_uid", "ensure_toggl_calendar"}

Began(op) == [call EXCEPT !.fn = op, !.trace = <<>>]

\* GoogleCalendarService(user): the stored credential is loaded and checked
Construct(lifetime) ==
    /\ call' = RefreshMaybe([Began("init") EXCEPT !.built = TRUE,
                                                   !.memory = call.stored],
                            lifetime)
    /\ UNCHANGED <<ingress, engine>>

\* one operation: the check, then the remote calls; create_event that meets
\* a 409 looks the event up, and ensure_toggl_calendar that finds the stored
\* calendar gone inserts a new one, each after a check of its own
AdapterOp(op, lifetime, conflict) ==
    /\ call.built
    /\ conflict => op \in {"create_event", "ensure_toggl_calendar"}
    /\ LET checked == RefreshMaybe(Began(op), lifetime)
           first   == RemoteCall(checked)
       IN  call' = IF op = "update_event" THEN RemoteCall(first)
                   ELSE IF conflict THEN RemoteCall(RefreshMaybe(first, lifetime))
                   ELSE first
    /\ UNCHANGED <<ingress, engine>>

\* credentials.refresh raises (the grant was revoked): the operation ends
\* there, before any remote call
RefreshFails(op) ==
    /\ call.built
    /\ Expired(call.memory)
    /\ Event
    /\ call' = [Began(op) EXCEPT !.trace = <<"refresh_failed">>]
    /\ UNCHANGED <<ingress, now, setup, connected, entries, queue, schedules,
                   remote, run, attempts>>

AdapterInit ==
    /\ now = 0
    /\ users = {1}
    /\ calendars = [u \in Users |-> {Cal("A", TRUE), Cal("B", FALSE)}]
    /\ mappings = [u \in Users |-> {}]
    /\ metadata = [u \in Users |-> Metadata(100)]
    /\ connected = [u \in Users |-> TRUE]
    /\ entries = [k \in Keys |-> NoEntry]
    /\ queue = <<>>
    /\ schedules = {}
    /\ remote = [sl \in Slots |-> NoEvent]
    /\ run = Idle
    /\ attempts = [k \in Keys |-> NoAttempts]
    /\ eventsLeft = MaxEvents
    /\ \E expiry \in {0, 60, 120, 180} :
          call = [fn |-> "none", built |-> FALSE, trace |-> <<>>,
                  stored |-> Credential(1, expiry),
                  memory |-> Credential(1, expiry)]
    /\ rows = {}
    /\ inflight = [r \in Requests |-> NoRequest]

AdapterNext ==
    \/ Tick
    \/ \E lifetime \in TokenLifetimes : Construct(lifetime)
    \/ \E op \in AdapterOps, lifetime \in TokenLifetimes, conflict \in BOOLEAN :
          AdapterOp(op, lifetime, conflict)
    \/ \E op \in AdapterOps : RefreshFails(op)

AdapterSpec == AdapterInit /\ [][AdapterNext]_vars

\* ------------------------------------------------ the gate on a finer clock
\* the clock in steps shorter than the quiet window
GateSteps == {20, 40}

Advance(d) ==
    /\ now + d <= MaxTime
    /\ now' = now + d
    /\ UNCHANGED <<aside, setup, connected, entries, queue, schedules, remote, run,
                   attempts, eventsLeft>>

GateInit ==
    /\ now = 0
    /\ users = {1}
    /\ calendars = [u \in Users |-> {Cal("A", TRUE), Cal("B", FALSE)}]
    /\ mappings = [u \in Users |-> {}]
    /\ metadata = [u \in Users |-> Metadata(100)]
    /\ connected = [u \in Users |-> TRUE]
    /\ entries = [k \in Keys |-> NoEntry]
    /\ queue = <<>>
    /\ schedules = {}
    /\ remote = [sl \in Slots |-> NoEvent]
    /\ run = Idle
    /\ attempts = [k \in Keys |-> NoAttempts]
    /\ eventsLeft = MaxEvents
    /\ call = NoCall
    /\ rows = {}
    /\ inflight = [r \in Requests |-> NoRequest]

GateNext ==
    \/ \E d \in GateSteps : Advance(d)
    \/ \E e \in WebhookEntryIds, a \in {"created", "updated"},
          p \in {Payload("Work", 10, 20, NoId, <<>>), Payload("", 10, 20, NoId, <<>>)} :
          WebhookUpsert(1, e, a, p)
    \/ \E sc \in schedules : FireSchedule(sc)
    \/ StartRun
    \/ Dispatch
    \/ UpdFind
    \/ Create
    \/ Update
    \/ Finish

GateSpec == GateInit /\ [][GateNext]_vars

\* ------------------------------------------------------ the calendar rows
\* the calendars by name, as Meta.ordering and Google's list give them
CalOrder == <<"A", "B">>

\* the calendar whose id is the user's e-mail address
PrimaryCalendar == "B"

\* the row is saved and the other defaults stay
SavedKeepingOthers(rs, c, d) ==
    {r \in rs : r.calendar_id # c} \cup {Cal(c, d)}

\* GoogleCal.save: a row saved as default unmarks the user's other
\* defaults; then the row is written
Saved(rs, c, d) ==
    {IF d /\ r.is_default THEN Cal(r.calendar_id, FALSE) ELSE r :
        r \in {r \in rs : r.calendar_id # c}} \cup {Cal(c, d)}

\* update_or_create(user, calendar_id, defaults = name): an existing row is
\* saved with the is_default it has, a new one with the field's default
UpdatedOrCreated(rs, c) ==
    Saved(rs, c, \E r \in rs : r.calendar_id = c /\ r.is_default)

RECURSIVE ImportedRows(_, _, _)
ImportedRows(rs, listed, i) ==
    IF i > Len(CalOrder) THEN rs
    ELSE ImportedRows(IF CalOrder[i] \in listed
                      THEN UpdatedOrCreated(rs, CalOrder[i]) ELSE rs,
                      listed, i + 1)

\* filter(user).first() under ordering -is_default, name, for rows without
\* a default
FirstByName(rs) ==
    LET i == CHOOSE i \in 1..Len(CalOrder) :
                /\ \E r \in rs : r.calendar_id = CalOrder[i]
                /\ \A j \in 1..(i - 1) : ~\E r \in rs : r.calendar_id = CalOrder[j]
    IN  CalOrder[i]

\* the last operation on the calendar rows: whose rows, which row, whether
\* it went through, and the defaults the user had before it
CalendarCall(fn, u, c, ok) ==
    [fn |-> fn, user |-> u, calendar |-> c, ok |-> ok,
     had |-> IF u \in Users
             THEN {r.calendar_id : r \in {r \in calendars[u] : r.is_default}}
             ELSE {}]

\* import_google_calendars_for_user: the writable calendars Google lists are
\* stored, the rows of the others deleted with their mappings, and with no
\* default left the primary calendar, else the first row, is saved as default;
\* a listing that fails leaves the rows as they are
ImportGoogleCalendars(u, listed, fails) ==
    LET kept == {r \in ImportedRows(calendars[u], listed, 1) :
                    r.calendar_id \in listed}
        primary == IF \E r \in kept : r.calendar_id = PrimaryCalendar
                   THEN PrimaryCalendar ELSE FirstByName(kept)
    IN  /\ IF fails
           THEN UNCHANGED <<calendars, mappings>>
           ELSE /\ calendars' = [calendars EXCEPT ![u] =
                      IF kept # {} /\ ~\E r \in kept : r.is_default
                      THEN Saved(kept, primary, TRUE) ELSE kept]
                /\ mappings' = [mappings EXCEPT ![u] =
                                   {m \in @ : m.gcal \in listed}]
        /\ call' = CalendarCall("import", u, NoCal, ~fails)
        /\ UNCHANGED <<ingress, now, users, metadata, connected, entries, queue,
                       schedules, remote, run, attempts, eventsLeft>>

\* the change form of CalendarAdmin: is_default is the one editable field
SaveCalendar(u, c, d) ==
    /\ \E r \in calendars[u] : r.calendar_id = c
    /\ calendars' = [calendars EXCEPT ![u] = Saved(@, c, d)]
    /\ call' = CalendarCall("save", u, c, TRUE)
    /\ UNCHANGED <<ingress, now, users, mappings, metadata, connected, entries,
                   queue, schedules, remote, run, attempts, eventsLeft>>

\* CalendarAdmin.make_default: the selection, cut down to the rows of the
\* request's user unless a superuser, must be one row; it is saved as default
MakeDefault(actor, superuser, selection) ==
    LET queryset == {x \in selection :
                        /\ \E r \in calendars[x[1]] : r.calendar_id = x[2]
                        /\ superuser \/ x[1] = actor}
    IN  /\ IF Cardinality(queryset) # 1
           THEN /\ call' = CalendarCall("make_default", 0, NoCal, FALSE)
                /\ UNCHANGED calendars
           ELSE LET x == CHOOSE x \in queryset : TRUE
                IN  /\ calendars' = [calendars EXCEPT ![x[1]] = Saved(@, x[2], TRUE)]
                    /\ call' = CalendarCall("make_default", x[1], x[2], TRUE)
        /\ UNCHANGED <<ingress, now, users, mappings, metadata, connected, entries,
                       queue, schedules, remote, run, attempts, eventsLeft>>

CalendarInit ==
    /\ now = 0
    /\ users = Users
    /\ calendars = [u \in Users |-> {}]
    /\ mappings = [u \in Users |-> {}]
    /\ metadata = [u \in Users |-> Metadata(100)]
    /\ call = [fn |-> "none", user |-> 0, calendar |-> NoCal, ok |-> TRUE,
               had |-> {}]
    /\ connected = [u \in Users |-> TRUE]
    /\ entries = [k \in Keys |-> NoEntry]
    /\ queue = <<>>
    /\ schedules = {}
    /\ remote = [sl \in Slots |-> NoEvent]
    /\ run = Idle
    /\ attempts = [k \in Keys |-> NoAttempts]
    /\ eventsLeft = MaxEvents
    /\ rows = {}
    /\ inflight = [r \in Requests |-> NoRequest]

CalendarNext ==
    \/ \E u \in Users, listed \in SUBSET CalIds, fails \in BOOLEAN :
          ImportGoogleCalendars(u, listed, fails)
    \/ \E u \in Users, c \in CalIds, d \in BOOLEAN : SaveCalendar(u, c, d)
    \/ \E actor \in Users, superuser \in BOOLEAN,
          selection \in SUBSET (Users \X CalIds) :
          MakeDefault(actor, superuser, selection)

CalendarSpec == CalendarInit /\ [][CalendarNext]_vars

\* ------------------------------------------- validation passes on their own
\* what a pass can find for an entry: the event as the engine left it, no
\* event (deleted by hand), the event renamed by hand, an entry whose
\* deletion was processed, and an entry not yet processed
EntryCases == {"matching", "missing", "edited", "deleted", "unsynced"}

EntryOfCase(c) ==
    [NoEntry EXCEPT !.exists = TRUE, !.description = "Work", !.start_time = 10,
                    !.end_time = 20,
                    !.calendar = IF c = "unsynced" THEN NoCal ELSE "A",
                    !.synced = (c # "unsynced"),
                    !.pending_deletion = (c = "deleted")]

EventOfCase(e, c) ==
    IF c \in {"matching", "edited"}
    THEN [NewEvent("A", e, GetGcalData(e, EntryOfCase(c), NoColor))
            EXCEPT !.summary = IF c = "edited" THEN "Edited" ELSE @]
    ELSE NoEvent

\* the entries of the passes: two of user 1 and one of user 2
ValidatedKeys == {<<1, 1>>, <<1, 2>>, <<2, 1>>}

ValidationInit ==
    /\ now = 0
    /\ users = Users
    /\ calendars = [u \in Users |-> {Cal("A", TRUE), Cal("B", FALSE)}]
    /\ mappings = [u \in Users |-> {}]
    /\ metadata = [u \in Users |-> Metadata(100)]
    /\ call = NoCall
    /\ connected \in [Users -> BOOLEAN]
    /\ \E cases \in [ValidatedKeys -> EntryCases] :
          /\ entries = [k \in Keys |-> IF k \in ValidatedKeys
                                        THEN EntryOfCase(cases[k]) ELSE NoEntry]
          /\ remote = [sl \in Slots |->
                          IF sl[2] = "A" /\ <<sl[1], sl[3]>> \in ValidatedKeys
                          THEN EventOfCase(sl[3], cases[<<sl[1], sl[3]>>])
                          ELSE NoEvent]
    /\ queue = <<>>
    /\ schedules = {}
    /\ run = Idle
    /\ attempts = [k \in Keys |-> NoAttempts]
    /\ eventsLeft = MaxEvents
    /\ rows = {}
    /\ inflight = [r \in Requests |-> NoRequest]

ValidationNext ==
    \/ StartValidate
    \/ \E k \in Keys : ValidateEntry(k)
    \/ EndValidate

ValidationSpec == ValidationInit /\ [][ValidationNext]_vars

\* ------------------------------------------ mappings in bulk on their own
\* two mappings that match the same entries: project 7, and workspace 10
\* that project 7 belongs to
BulkMappings(c1, c2, o1, o2) ==
    {[entity_type |-> "project", entity_id |-> 7, gcal |-> c1,
      color_id |-> "11", process_order |-> o1],
     [entity_type |-> "workspace", entity_id |-> 10, gcal |-> c2,
      color_id |-> "5", process_order |-> o2]}

\* an entry under project 7 as an engine run left it in calendar c, then
\* with its event, without it (deleted by hand), or not yet processed
BulkCases == {"matching", "missing", "unsynced"}

BulkEntry(case, c) ==
    [EntryOfCase(case) EXCEPT !.project_id = 7,
                              !.calendar = IF case = "unsynced" THEN NoCal ELSE c]

BulkEvent(e, case, c) ==
    IF case = "matching"
    THEN NewEvent(c, e, GetGcalData(e, BulkEntry(case, c), NoColor))
    ELSE NoEvent

BulkKeys == {<<1, 1>>, <<1, 2>>}

BulkInit ==
    /\ now = 0
    /\ users = {1}
    /\ calendars = [u \in Users |-> {Cal("A", TRUE), Cal("B", FALSE)}]
    /\ \E c1, c2 \in CalIds, o \in {<<1, 2>>, <<2, 1>>} :
          mappings = [u \in Users |-> BulkMappings(c1, c2, o[1], o[2])]
    /\ metadata = [u \in Users |-> Metadata(100)]
    /\ call = NoCall
    /\ connected = [u \in Users |-> TRUE]
    /\ \E cases \in [BulkKeys -> BulkCases], cals \in [BulkKeys -> CalIds] :
          /\ entries = [k \in Keys |-> IF k \in BulkKeys
                                        THEN BulkEntry(cases[k], cals[k])
                                        ELSE NoEntry]
          /\ remote = [sl \in Slots |->
                          IF <<sl[1], sl[3]>> \in BulkKeys
                             /\ sl[2] = cals[<<sl[1], sl[3]>>]
                          THEN BulkEvent(sl[3], cases[<<sl[1], sl[3]>>], sl[2])
                          ELSE NoEvent]
    /\ queue = <<>>
    /\ schedules = {}
    /\ run = Idle
    /\ attempts = [k \in Keys |-> NoAttempts]
    /\ eventsLeft = MaxEvents
    /\ rows = {}
    /\ inflight = [r \in Requests |-> NoRequest]

BulkNext ==
    \/ \E u \in Users : ApplyMappings(u)
    \/ ApplyMappingToEntry
    \/ \E sl \in Slots : ExternalDelete(sl)
    \/ \E u \in Users : Disconnect(u)

BulkSpec == BulkInit /\ [][BulkNext]_vars

\* ---------------------------------------------------- ingress, row by row
\* toggl_webhook from the request to the response, with update_or_create
\* taken apart into its queries, for requests handled side by side by
\* several web workers
NoPayload == Payload("", NoTime, NoTime, NoId, <<>>)

\* the time-entry payloads of the ingress specification: a stopped entry,
\* and a running one without description, with project and tag
IngressPayloads ==
    {Payload("Work", 10, 20, NoId, <<>>),
     Payload("", 10, NoTime, 7, <<3>>)}

\* a request: the routing token in the URL (the id of the user whose
\* workspace carries it, NoId for a token no workspace carries), the body
\* (JSON or not), the X-Webhook-Signature-256 header against the workspace's
\* secret, what "payload" holds, the "id" in it, and metadata.action
WebhookRequest(token, body, signature, payload, id, action, entry) ==
    [token |-> token, body |-> body, signature |-> signature,
     payload |-> payload, id |-> id, action |-> action, entry |-> entry]

\* TogglWorkspace.webhook_secret: the workspace of user 1 has one, the
\* workspace of user 2 has none
HasWebhookSecret(u) == u = 1

\* the requests that pass every check of toggl_webhook
AcceptedRequests ==
    {WebhookRequest(u, "json", IF HasWebhookSecret(u) THEN "valid" ELSE "missing",
                    "entry", e, a, p) :
        u \in Users, e \in WebhookEntryIds, a \in {"created", "updated"},
        p \in IngressPayloads}
    \cup
    {WebhookRequest(u, "json", IF HasWebhookSecret(u) THEN "valid" ELSE "missing",
                    "entry", e, "deleted", NoPayload) :
        u \in Users, e \in WebhookEntryIds}

\* the requests handled side by side: every accepted request of user 1,
\* and the creation of the stopped entry for user 2
IngressRequests ==
    {req \in AcceptedRequests :
        \/ req.token = 1
        \/ req.action = "created" /\ req.entry.stop # NoTime}

\* every request: any token, body and signature; a ping, a payload that is
\* no object, or a time entry with or without id under a known or an
\* unknown action ("archived")
WebhookRequests ==
    {WebhookRequest(t, b, sg, "entry", id, a, p) :
        t \in Users \cup {NoId}, b \in {"json", "malformed"},
        sg \in {"valid", "invalid", "missing"}, id \in WebhookEntryIds \cup {NoId},
        a \in {"created", "updated", "deleted", "archived"},
        p \in {Payload("Work", 10, 20, NoId, <<>>)}}
    \cup
    {WebhookRequest(t, b, sg, pl, NoId, "", NoPayload) :
        t \in Users \cup {NoId}, b \in {"json", "malformed"},
        sg \in {"valid", "invalid", "missing"}, pl \in {"ping", "other"}}
    \cup AcceptedRequests

Response(status, outcome) == [status |-> status, outcome |-> outcome]

\* every action is taken for one that is known
CheckedAnyAction(req) ==
    IF req.token \notin users THEN Response(404, "unknown_token")
    ELSE IF req.body # "json" THEN Response(400, "malformed")
    ELSE IF HasWebhookSecret(req.token) /\ req.signature = "missing"
         THEN Response(500, "error")
    ELSE IF HasWebhookSecret(req.token) /\ req.signature # "valid"
         THEN Response(401, "bad_signature")
    ELSE IF req.payload = "ping" THEN Response(200, "ping")
    ELSE IF req.payload # "entry" THEN Response(200, "not_entry")
    ELSE IF req.id = NoId THEN Response(200, "no_id")
    ELSE Response(200, "accepted")

\* the checks of toggl_webhook in their order, up to the first that ends the
\* request: the workspace of the token (404), json.loads (400), the
\* signature when the workspace has a secret (401; without the header
\* verify_signature is handed None, signature.startswith raises and the
\* request ends as a server error), the ping, the payload that is no dict,
\* the missing id and the unknown action (200)
Checked(req) ==
    IF req.token \notin users THEN Response(404, "unknown_token")
    ELSE IF req.body # "json" THEN Response(400, "malformed")
    ELSE IF HasWebhookSecret(req.token) /\ req.signature = "missing"
         THEN Response(500, "error")
    ELSE IF HasWebhookSecret(req.token) /\ req.signature # "valid"
         THEN Response(401, "bad_signature")
    ELSE IF req.payload = "ping" THEN Response(200, "ping")
    ELSE IF req.payload # "entry" THEN Response(200, "not_entry")
    ELSE IF req.id = NoId THEN Response(200, "no_id")
    ELSE IF req.action \notin {"created", "updated", "deleted"}
         THEN Response(200, "unknown_action")
    ELSE Response(200, "accepted")

RowsOf(rs, u, e) == {row \in rs : row.user = u /\ row.toggl_id = e}

\* a table without the constraint
NoConstraint(rs, u, e) == FALSE

\* unique_together = ["user", "toggl_id"]: the insert of a second row for
\* the pair is refused (IntegrityError)
ViolatesUnique(rs, u, e) == RowsOf(rs, u, e) # {}

\* the flags are left as they are
WrittenKeepingFlags(row, p) ==
    [row EXCEPT !.description = p.description, !.start_time = p.start,
                !.end_time = p.stop, !.project_id = p.project_id,
                !.tag_ids = p.tag_ids]

\* the defaults of update_or_create written to a row
Written(row, p) ==
    [row EXCEPT !.description = p.description, !.start_time = p.start,
                !.end_time = p.stop, !.project_id = p.project_id,
                !.tag_ids = p.tag_ids, !.synced = FALSE,
                !.pending_deletion = FALSE]

NewRow(rs, u, e, p) ==
    Written([pk |-> Cardinality(rs) + 1, user |-> u, toggl_id |-> e,
             description |-> "", start_time |-> NoTime, end_time |-> NoTime,
             project_id |-> NoId, tag_ids |-> <<>>, synced |-> FALSE,
             pending_deletion |-> FALSE], p)

IngressInit ==
    /\ now = 0
    /\ users = Users
    /\ calendars = [u \in Users |-> {}]
    /\ mappings = [u \in Users |-> {}]
    /\ metadata = [u \in Users |-> Metadata(100)]
    /\ call = NoCall
    /\ connected = [u \in Users |-> TRUE]
    /\ entries = [k \in Keys |-> NoEntry]
    /\ queue = <<>>
    /\ schedules = {}
    /\ remote = [s \in Slots |-> NoEvent]
    /\ run = Idle
    /\ attempts = [k \in Keys |-> NoAttempts]
    /\ eventsLeft = 0
    /\ rows = {}
    /\ inflight = [r \in Requests |-> NoRequest]

\* a request arrives and passes the checks of toggl_webhook
Receive(r, req) ==
    /\ inflight[r].pc = "idle"
    /\ r > 1 => inflight[r - 1].pc # "idle"
    /\ Checked(req).outcome = "accepted"
    /\ inflight' = [inflight EXCEPT ![r] =
                      [NoRequest EXCEPT !.user = req.token, !.entry = req.id,
                                        !.payload = req.entry,
                                        !.pc = IF req.action = "deleted" THEN "mark"
                                               ELSE "get"]]
    /\ UNCHANGED <<engine, rows, call>>

\* filter(user=user, toggl_id=entry_id).update(pending_deletion, synced)
Mark(r) ==
    /\ inflight[r].pc = "mark"
    /\ rows' = {IF row \in RowsOf(rows, inflight[r].user, inflight[r].entry)
                THEN [row EXCEPT !.pending_deletion = TRUE, !.synced = FALSE]
                ELSE row : row \in rows}
    /\ inflight' = [inflight EXCEPT ![r].pc = "enqueue"]
    /\ UNCHANGED <<engine, call>>

\* update_or_create: the lookup by (user, toggl_id)
Get(r) ==
    /\ inflight[r].pc = "get"
    /\ LET found == RowsOf(rows, inflight[r].user, inflight[r].entry)
       IN  inflight' = [inflight EXCEPT ![r] =
                          IF found = {} THEN [@ EXCEPT !.pc = "insert"]
                          ELSE [@ EXCEPT !.pc = "update",
                                         !.pk = (CHOOSE row \in found : TRUE).pk]]
    /\ UNCHANGED <<engine, rows, call>>

\* update_or_create: the insert after a lookup that found nothing; refused
\* by the constraint, the lookup is made again
Insert(r) ==
    /\ inflight[r].pc = "insert"
    /\ IF ViolatesUnique(rows, inflight[r].user, inflight[r].entry)
       THEN /\ inflight' = [inflight EXCEPT ![r].pc = "get", ![r].conflict = TRUE]
            /\ UNCHANGED rows
       ELSE /\ rows' = rows \cup {NewRow(rows, inflight[r].user, inflight[r].entry,
                                         inflight[r].payload)}
            /\ inflight' = [inflight EXCEPT ![r].pc = "enqueue"]
    /\ UNCHANGED <<engine, call>>

\* update_or_create: the defaults written to the row found
UpdateRow(r) ==
    /\ inflight[r].pc = "update"
    /\ rows' = {IF row.pk = inflight[r].pk THEN Written(row, inflight[r].payload)
                ELSE row : row \in rows}
    /\ inflight' = [inflight EXCEPT ![r].pc = "enqueue"]
    /\ UNCHANGED <<engine, call>>

\* async_task("sync.tasks.process_time_entry_event", user.id, entry_id) and
\* the response
Enqueue(r) ==
    /\ inflight[r].pc = "enqueue"
    /\ queue' = Append(queue, Task(inflight[r].user, inflight[r].entry, "webhook"))
    /\ inflight' = [inflight EXCEPT ![r].pc = "answered"]
    /\ UNCHANGED <<now, setup, connected, entries, schedules, remote, run, attempts,
                   eventsLeft, rows, call>>

IngressNext ==
    \/ \E r \in Requests, req \in IngressRequests : Receive(r, req)
    \/ \E r \in Requests : Mark(r)
    \/ \E r \in Requests : Get(r)
    \/ \E r \in Requests : Insert(r)
    \/ \E r \in Requests : UpdateRow(r)
    \/ \E r \in Requests : Enqueue(r)

IngressSpec == IngressInit /\ [][IngressNext]_vars

\* ------------------------------------------- the webhook view, one by one
\* toggl_webhook from the request to the response, one request after the
\* other: the last request and its response are kept in call
WebhookInit ==
    /\ now = 0
    /\ users = Users
    /\ calendars = [u \in Users |-> {}]
    /\ mappings = [u \in Users |-> {}]
    /\ metadata = [u \in Users |-> Metadata(100)]
    /\ call = [fn |-> "none",
               request |-> WebhookRequest(NoId, "json", "missing", "other", NoId,
                                          "", NoPayload),
               response |-> Response(0, "none")]
    /\ connected = [u \in Users |-> TRUE]
    /\ entries = [k \in Keys |-> NoEntry]
    /\ queue = <<>>
    /\ schedules = {}
    /\ remote = [s \in Slots |-> NoEvent]
    /\ run = Idle
    /\ attempts = [k \in Keys |-> NoAttempts]
    /\ eventsLeft = MaxEvents
    /\ rows = {}
    /\ inflight = [r \in Requests |-> NoRequest]

\* toggl_webhook: the checks; for a request that passes them the write to
\* the store and async_task; the response
TogglWebhook(req) ==
    /\ Event
    /\ call' = [fn |-> "toggl_webhook", request |-> req, response |-> Checked(req)]
    /\ IF Checked(req).outcome = "accepted"
       THEN /\ entries' = [entries EXCEPT ![<<req.token, req.id>>] =
                             IF req.action = "deleted"
                             THEN IF @.exists THEN MarkedForDeletion(@) ELSE @
                             ELSE Upserted(@, req.entry)]
            /\ queue' = Append(queue, Task(req.token, req.id, "webhook"))
       ELSE UNCHANGED <<entries, queue>>
    /\ UNCHANGED <<now, setup, connected, schedules, remote, run, attempts, ingress>>

WebhookNext == \E req \in WebhookRequests : TogglWebhook(req)

WebhookSpec == WebhookInit /\ [][WebhookNext]_vars

\* ------------------------------------------------- functions on their own
\* CalendarResolver.resolve and TogglTimeEntry.get_gcal_data applied to
\* arguments drawn from small sets
Mapping(type, id, gcal, color_id, order) ==
    [entity_type |-> type, entity_id |-> id, gcal |-> gcal,
     color_id |-> color_id, process_order |-> order]

\* one mapping per entity, as CalendarMappingForm stores them (entity_id is
\* the entity's Toggl id); the two tag mappings in either order
MappingChoices(org_toggl_id, swap) ==
    {Mapping("tag", 3, "A", "1", IF swap THEN 2 ELSE 1),
     Mapping("tag", 4, "B", "2", IF swap THEN 1 ELSE 2),
     Mapping("project", 7, "A", "3", 3),
     Mapping("workspace", 10, "B", "4", 4),
     Mapping("organization", org_toggl_id, "A", "5", 5)}

CallEntries ==
    {[NoEntry EXCEPT !.exists = TRUE, !.description = "Work", !.start_time = 10,
                     !.end_time = stop, !.project_id = p, !.tag_ids = tags] :
        stop \in {NoTime, 20}, p \in {NoId, 7},
        tags \in {<<>>, <<3>>, <<3, 4>>, <<4, 3>>}}

FunctionsInit ==
    /\ now = 0
    /\ users = {1}
    /\ \E org \in {1, 100}, swap \in BOOLEAN, dflt \in BOOLEAN :
          /\ metadata = [u \in Users |-> Metadata(org)]
          /\ \E ms \in SUBSET MappingChoices(org, swap) :
                mappings = [u \in Users |-> ms]
          /\ calendars = [u \in Users |-> {Cal("A", dflt), Cal("B", FALSE)}]
    /\ connected = [u \in Users |-> TRUE]
    /\ entries = [k \in Keys |-> NoEntry]
    /\ queue = <<>>
    /\ schedules = {}
    /\ remote = [s \in Slots |-> NoEvent]
    /\ run = Idle
    /\ attempts = [k \in Keys |-> NoAttempts]
    /\ eventsLeft = 0
    /\ rows = {}
    /\ inflight = [r \in Requests |-> NoRequest]
    /\ \E rec \in CallEntries, w \in {NoId, 10}, c \in {NoColor, "11"} :
          call = [NoCall EXCEPT !.entry = rec, !.workspace_id = w, !.color_id = c]

\* resolve on a Toggl payload, which carries workspace_id
CallResolve ==
    /\ call.fn = "none"
    /\ call' = [call EXCEPT !.fn = "resolve",
                  !.resolved = Resolve(1, [tag_ids |-> call.entry.tag_ids,
                                           project_id |-> call.entry.project_id,
                                           workspace_id |-> call.workspace_id])]
    /\ UNCHANGED <<engine, ingress>>

\* resolve as the handlers call it, on the dict built by
\* process_time_entry_event
CallEngineResolve ==
    /\ call.fn = "none"
    /\ call' = [call EXCEPT !.fn = "engine_resolve",
                            !.resolved = Resolve(1, TimeEntry(call.entry))]
    /\ UNCHANGED <<engine, ingress>>

CallGetGcalData ==
    /\ call.fn = "none"
    /\ call' = [call EXCEPT !.fn = "get_gcal_data",
                            !.data = GetGcalData(1, call.entry, call.color_id)]
    /\ UNCHANGED <<engine, ingress>>

FunctionsNext ==
    \/ CallResolve
    \/ CallEngineResolve
    \/ CallGetGcalData

FunctionsSpec == FunctionsInit /\ [][FunctionsNext]_vars

\* ------------------------------------------------------------- properties
\* a step in which a run of process_time_entry_event calls the calendar
RemoteCallStep ==
    /\ Processing(RunKey)
    /\ run'.user = run.user
    /\ run'.entry = run.entry
    /\ run'.calls # run.calls

\* a step in which the worker takes a process_time_entry_event task off the
\* queue
TaskStep == Len(queue') < Len(queue) /\ Head(queue).via # "apply"

\* the step that ends a run that did not raise
FinishStep == run.pc = "finish" /\ run'.pc = "done"

\* one entry handled by the validation pass
ValidateStep == run.pc = "validate" /\ run'.todo # run.todo

EventsOf(k) == {c \in CalIds : remote[<<k[1], c, k[2]>>].present}

\* C1: a run in which a remote call failed does not leave synced = true on
\* an entry that was unsynced when the run started.
C1_FailedCallNotSynced ==
    (run.pc \in {"done", "raised"} /\ run.failed /\ ~run.before.synced)
        => ~run.after.synced

\* C2: a run during which a webhook upsert for its entry was recorded, and
\* that resolved a calendar and saw no call fail, ends with the entry unsynced.
C2_RacedRunLeavesUnsynced ==
    [][(FinishStep /\ run.raced /\ ~run.nodest /\ ~run.failed)
          => ~entries'[RunKey].synced]_vars

C4_OneRecheck ==
    \A e \in EntryIds : Cardinality({s \in schedules : s.name = e}) <= 1

\* C4 witness: a debounced run found a re-check for its entry and replaced it
C4_Replaced ==
    /\ run.pc = "deferred"
    /\ run.replaced
    /\ \E s \in schedules : s.name = run.entry /\ s.next_run > now

\* C5: webhook events for an entry, each less than QCLUSTER_WAIT after the
\* one before, are followed by at most one run that goes past the debounce
\* gate (deliveries of a failed task apart).
C5_OneAttempt ==
    \A k \in Keys : attempts[k].burst => attempts[k].runs <= 1

\* C6: a run that finds the entry's event in the calendar it resolves to,
\* the entry not pending deletion, updates it once, creates nothing and
\* leaves exactly one event for the entry.
C6_SecondRunUpdates ==
    (/\ run.pc = "done"
     /\ run.existed
     /\ ~run.failed
     /\ ~run.nodest
     /\ ~run.before.pending_deletion
     /\ run.before.calendar = run.after.calendar
     /\ entries[RunKey].synced)
        => /\ run.calls.update = 1
           /\ run.calls.create = 0
           /\ Cardinality(EventsOf(RunKey)) = 1

\* C7: when a run sets synced = true on an entry that is not pending
\* deletion, the calendar on file holds the entry's event, rendered from the
\* state the run read.
C7_SyncedMeansMatching ==
    [][(FinishStep /\ ~entries'[RunKey].pending_deletion) =>
          LET rec  == entries'[RunKey]
              ev   == IF rec.calendar = NoCal THEN NoEvent
                      ELSE remote'[<<run.user, rec.calendar, run.entry>>]
              want == GetGcalData(run.entry, run.db,
                                  Resolve(run.user, TimeEntry(run.ent)).color_id)
          IN  /\ rec.synced
              /\ ev.present
              /\ ev.summary = want.summary
              /\ ev.start = want.start
              /\ ev.end = want.end
              /\ ev.color_id = want.color_id]_vars

\* C8: the validation pass, on an entry that is synced and not pending
\* deletion and whose lookup succeeds, clears synced exactly when the event
\* is absent or its summary is not the description (or "(No description)"
\* for an empty one); otherwise synced stays true.
C8_ClearsOnDrift ==
    [][(/\ ValidateStep
        /\ run'.vresult # "error"
        /\ entries[run'.vkey].synced
        /\ ~entries[run'.vkey].pending_deletion) =>
          LET k    == run'.vkey
              rec  == entries[k]
              ev   == IF rec.calendar = NoCal THEN NoEvent
                      ELSE remote[<<k[1], rec.calendar, k[2]>>]
              want == IF rec.description = "" THEN "(No description)"
                      ELSE rec.description
          IN  entries'[k].synced <=> (ev.present /\ ev.summary = want)]_vars

\* C8 witness: the pass cleared synced over an event that is there under
\* another summary
C8_ClearedOnEdit ==
    /\ run.pc = "validate"
    /\ run.vresult = "cleared"
    /\ LookedUp(run.vkey).present
    /\ ~entries[run.vkey].synced

\* an entry whose owner is connected and that resolves to a calendar
Syncable(k) ==
    /\ entries[k].exists
    /\ ~entries[k].pending_deletion
    /\ connected[k[1]]
    /\ Resolve(k[1], TimeEntry(entries[k])).found

\* synced, with the event in the calendar on file carrying the summary
Converged(k) ==
    /\ entries[k].synced
    /\ LookedUp(k).present
    /\ LookedUp(k).summary = Summary(entries[k].description)

\* C9: once the webhook events have stopped, every syncable entry reaches
\* synced = true with a matching event again.
C9_Convergence ==
    \A k \in Keys :
        (eventsLeft = 0 /\ Syncable(k)) ~> (Converged(k) \/ ~Syncable(k))

\* C10: a run that resolves no destination makes no create, update or
\* delete call and leaves the entry pending.
C10_NoDestinationStaysPending ==
    (run.pc = "done" /\ run.nodest)
        => /\ run.calls.create = 0
           /\ run.calls.update = 0
           /\ run.calls.delete = 0
           /\ ~run.after.synced
           /\ ~run.after.pending_deletion

\* C11: a run for a user whose credentials are missing does not raise, and
\* when it has called nothing it leaves the entry unsynced.
C11_NotConnectedSkips ==
    [][/\ (run.pc = "dispatch" /\ ~connected[run.user]) => run'.pc # "raised"
       /\ (FinishStep /\ ~connected[run.user] /\ run.calls = NoCalls)
            => ~entries'[RunKey].synced]_vars

\* C12: the run of an entry that is pending deletion leaves the record in
\* the store, pending deletion and unsynced.
C12_DeletionNeverSynced ==
    [][(FinishStep /\ run.ent.pending_deletion) =>
          /\ entries'[RunKey].exists
          /\ entries'[RunKey].pending_deletion
          /\ ~entries'[RunKey].synced]_vars

\* C13: the run of an entry that is pending deletion goes on to the delete
\* exactly when the lookup finds the entry's event, and deletes the event it
\* found; a run that found none ends without a delete call and without
\* raising; no run makes more than one delete call, or creates or updates.
C13_DeleteIffFound ==
    [][/\ (/\ run.pc = "del_find"
           /\ run.ent.pending_deletion
           /\ run'.pc \notin {"del_find", "raised"}) =>
            LET ev == EventAt(run.user, run.db.calendar, run.entry)
            IN  /\ run'.pc = (IF ev.present THEN "del_delete" ELSE "finish")
                /\ ev.present => run'.cur = ev.id
       /\ (/\ run.pc = "del_delete"
           /\ run.ent.pending_deletion
           /\ run'.pc # "del_delete") =>
            /\ run'.pc = "finish"
            /\ run'.calls.delete = 1
            /\ ~run'.failed => ~EventAt(run.user, run.db.calendar, run.entry)'.present
       /\ (FinishStep /\ run.ent.pending_deletion) =>
            /\ run.calls.delete = (IF run.existed THEN 1 ELSE 0)
            /\ run.calls.create = 0
            /\ run.calls.update = 0]_vars

\* C13 witness: a deletion run found the event, deleted it and is over
C13_Deleted ==
    /\ run.pc = "done"
    /\ run.before.pending_deletion
    /\ run.existed
    /\ run.calls.delete = 1
    /\ ~run.failed
    /\ EventsOf(RunKey) = {}

\* C14: a record that exists in the store exists in every later state.
C14_NeverRemoved ==
    [][\A k \in Keys : entries[k].exists => entries'[k].exists]_vars

\* C14 witness: the deletion of an entry was processed and its record is there
C14_KeptAfterDeletion ==
    /\ run.pc = "done"
    /\ run.before.pending_deletion
    /\ entries[RunKey].exists
    /\ entries[RunKey].pending_deletion

\* C15: the table holds at most one row per (user, toggl_id), however the
\* webhook requests for the pair interleave.
C15_OneRecord ==
    \A k \in Keys : Cardinality(RowsOf(rows, k[1], k[2])) <= 1

\* C15 witness: a request whose insert for a new entry was refused because
\* another request had inserted the row has been served
C15_ConcurrentCreate ==
    \E r \in Requests :
        /\ inflight[r].conflict
        /\ inflight[r].pc = "answered"
        /\ Cardinality(RowsOf(rows, inflight[r].user, inflight[r].entry)) = 1

\* the mappings of user u on the entry's tags, on its project, on the
\* workspace and on the organization the workspace belongs to
LevelMappings(u, tag_ids, project_id, workspace_id) ==
    <<{m \in mappings[u] : /\ m.entity_type = "tag"
                           /\ \E i \in 1..Len(tag_ids) : tag_ids[i] = m.entity_id},
      {m \in mappings[u] : m.entity_type = "project" /\ m.entity_id = project_id},
      {m \in mappings[u] : m.entity_type = "workspace" /\ m.entity_id = workspace_id},
      {m \in mappings[u] :
          /\ m.entity_type = "organization"
          /\ \E w \in metadata[u].workspaces, o \in metadata[u].organizations :
                /\ w.toggl_id = workspace_id
                /\ o.pk = w.organization_id
                /\ o.toggl_id = m.entity_id}>>

\* the resolution by priority: the first level with a mapping, in it the
\* mapping of lowest process_order; else the default calendar without colour
WantResolved(u, tag_ids, project_id, workspace_id) ==
    LET levels == LevelMappings(u, tag_ids, project_id, workspace_id)
        mapped == {i \in 1..4 : levels[i] # {}}
        dflt   == {c \in calendars[u] : c.is_default}
    IN  IF mapped # {}
        THEN LET first == CHOOSE i \in mapped : \A j \in mapped : i <= j
                 m     == CHOOSE x \in levels[first] :
                             \A y \in levels[first] : x.process_order <= y.process_order
             IN  [found |-> TRUE, calendar |-> m.gcal, color_id |-> m.color_id]
        ELSE IF dflt # {}
        THEN [found |-> TRUE, calendar |-> (CHOOSE c \in dflt : TRUE).calendar_id,
              color_id |-> NoColor]
        ELSE [found |-> FALSE, calendar |-> NoCal, color_id |-> NoColor]

\* C16: resolve returns the mapping of the first level that has one, in the
\* order tag, project, workspace, organization, and the default calendar
\* without colour only when no level has a mapping.
C16_ResolvePriority ==
    call.fn = "resolve" =>
        call.resolved = WantResolved(1, call.entry.tag_ids, call.entry.project_id,
                                     call.workspace_id)

\* C17: when several tags of the entry have mappings, resolve returns the
\* one of lowest process_order, in whatever order the entry lists its tags.
C17_LowestOrderTag ==
    call.fn = "resolve" =>
        LET matched == LevelMappings(1, call.entry.tag_ids, NoId, NoId)[1]
        IN  matched # {} =>
              \E m \in matched :
                  /\ \A o \in matched : m.process_order <= o.process_order
                  /\ call.resolved.found
                  /\ call.resolved.calendar = m.gcal
                  /\ call.resolved.color_id = m.color_id

\* C17 witness: two mapped tags, the one listed first with the higher
\* process_order, and the mapping of the second returned
C17_SecondTagWins ==
    /\ call.fn = "resolve"
    /\ Len(call.entry.tag_ids) = 2
    /\ \E m1, m2 \in mappings[1] :
          /\ m1.entity_type = "tag" /\ m1.entity_id = call.entry.tag_ids[1]
          /\ m2.entity_type = "tag" /\ m2.entity_id = call.entry.tag_ids[2]
          /\ m1.process_order > m2.process_order
          /\ call.resolved.color_id = m2.color_id

\* the workspace that owns the project
WorkspaceOf(u, project_id) ==
    LET ps == {p \in metadata[u].projects : p.toggl_id = project_id}
    IN  IF ps = {} THEN NoId ELSE (CHOOSE p \in ps : TRUE).workspace

\* C18: for an entry with a project and no tags, the engine's resolution is
\* the one by priority with the workspace that owns the project.
C18_EngineUsesWorkspace ==
    (/\ call.fn = "engine_resolve"
     /\ call.entry.tag_ids = <<>>
     /\ call.entry.project_id # NoId) =>
        call.resolved = WantResolved(1, <<>>, call.entry.project_id,
                                     WorkspaceOf(1, call.entry.project_id))

\* C19: the rendered end is end_time, or start_time + 1 minute for an entry
\* without end_time; the rendered colour is "8" for an entry without
\* end_time and the colour passed in otherwise.
C19_Rendering ==
    call.fn = "get_gcal_data" =>
        /\ call.data.end = (IF call.entry.end_time # NoTime THEN call.entry.end_time
                            ELSE call.entry.start_time + 60)
        /\ call.data.color_id = (IF call.entry.end_time = NoTime THEN "8"
                                 ELSE call.color_id)

\* C19 witness: a running entry rendered with a mapping colour passed in
C19_RunningGrey ==
    /\ call.fn = "get_gcal_data"
    /\ call.entry.end_time = NoTime
    /\ call.color_id = "11"
    /\ call.data.color_id = "8"
    /\ call.data.end = 70

\* C20: the run of an entry that has a calendar on file and no stop time,
\* and that finds the entry's event, leaves the event in that calendar, in
\* the running colour and ending one minute after its start, and the entry
\* synced.
C20_RunningEventKept ==
    [][(/\ FinishStep
        /\ run.ent.calendar # NoCal
        /\ ~run.ent.pending_deletion
        /\ run.db.end_time = NoTime
        /\ ~run.db.pending_deletion
        /\ run.existed
        /\ ~run.failed) =>
          LET ev == remote'[<<run.user, run.db.calendar, run.entry>>]
          IN  /\ ev.present
              /\ ev.color_id = RunningColor
              /\ ev.end = run.db.start_time + RunningPlaceholder
              /\ entries'[RunKey].synced]_vars

\* C21: a run that resolves a calendar other than the one on file and ends
\* with synced = true leaves the entry's event in the new calendar, no event
\* under the entry's key in the old one, and the new calendar on file.
C21_MovedCleanly ==
    [][(/\ FinishStep
        /\ run.db.calendar # NoCal
        /\ run.dest # NoCal
        /\ run.dest # run.db.calendar
        /\ entries'[RunKey].synced) =>
          /\ remote'[<<run.user, run.dest, run.entry>>].present
          /\ ~remote'[<<run.user, run.db.calendar, run.entry>>].present
          /\ entries'[RunKey].calendar = run.dest]_vars

\* C22: synced goes from false to true only in the step that ends a run of
\* process_time_entry_event for that entry: no webhook, no validation pass
\* and no bulk application of a mapping sets it.
C22_OnlyEngineSetsSynced ==
    [][\A k \in Keys :
          (~entries[k].synced /\ entries'[k].synced) => (FinishStep /\ RunKey = k)]_vars

\* C22 witness: a mapping was applied in bulk to an entry that a webhook had
\* put back to unsynced, its event found and recoloured, and the entry is
\* still unsynced
C22_AppliedStaysUnsynced ==
    /\ run.pc = "applied"
    /\ run.calls.update = 1
    /\ ~run.before.synced
    /\ ~entries[RunKey].synced

\* C24: a deleted webhook for an entry in the store leaves it pending
\* deletion and unsynced, whatever it was before, with description, start,
\* end, project, tags and calendar as they were.
C24_DeletedMarksOnly ==
    [][\A u \in Users, e \in EntryIds :
          (WebhookDeleted(u, e) /\ entries[<<u, e>>].exists) =>
              LET old == entries[<<u, e>>]
                  new == entries'[<<u, e>>]
              IN  /\ new.exists
                  /\ new.pending_deletion
                  /\ ~new.synced
                  /\ new.description = old.description
                  /\ new.start_time = old.start_time
                  /\ new.end_time = old.end_time
                  /\ new.project_id = old.project_id
                  /\ new.tag_ids = old.tag_ids
                  /\ new.calendar = old.calendar]_vars

\* C24 witness: the deletion of an entry that a run had left synced, with a
\* calendar on file, has been recorded and waits for its run
C24_SyncedEntryMarked ==
    /\ run.pc = "done"
    /\ run.after.synced
    /\ run.after.calendar # NoCal
    /\ ~run.after.pending_deletion
    /\ entries[RunKey].pending_deletion
    /\ ~entries[RunKey].synced
    /\ entries[RunKey].calendar = run.after.calendar
    /\ queue # <<>>

\* C23: the write of an accepted created or updated request leaves one row
\* for (user, id), holding the request's description, start, stop, project
\* and tags, unsynced and not pending deletion; a request enqueues its task
\* after its write, once, and no step of a request touches the calendar.
C23_RecordedThenQueued ==
    [][/\ \A r \in Requests :
            (inflight[r].pc \in {"insert", "update"} /\ inflight'[r].pc = "enqueue") =>
                LET p  == inflight[r].payload
                    rs == RowsOf(rows', inflight[r].user, inflight[r].entry)
                IN  /\ Cardinality(rs) = 1
                    /\ \A row \in rs :
                          /\ row.description = p.description
                          /\ row.start_time = p.start
                          /\ row.end_time = p.stop
                          /\ row.project_id = p.project_id
                          /\ row.tag_ids = p.tag_ids
                          /\ ~row.synced
                          /\ ~row.pending_deletion
       /\ \A r \in Requests :
            (inflight[r].pc # "answered" /\ inflight'[r].pc = "answered") =>
                /\ inflight[r].pc = "enqueue"
                /\ queue' = Append(queue, Task(inflight[r].user, inflight[r].entry,
                                               "webhook"))
       /\ queue' # queue =>
            \E r \in Requests :
                inflight[r].pc = "enqueue" /\ inflight'[r].pc = "answered"
       /\ \A r \in Requests :
            inflight[r].pc = "answered" => inflight'[r] = inflight[r]
       /\ remote' = remote]_vars

\* C23 witness: a deletion and two writes for one entry have been answered;
\* the later write found the row and updated it: the row holds its payload,
\* no flag set, and the three tasks are queued
C23_UpdatedAndQueued ==
    \E r, d \in Requests :
        /\ inflight[d].pc = "answered"
        /\ inflight[d].payload = NoPayload
        /\ d < r
        /\ inflight[r].pc = "answered"
        /\ inflight[r].pk # 0
        /\ inflight[r].user = inflight[d].user
        /\ inflight[r].payload.project_id = 7
        /\ \E row \in RowsOf(rows, inflight[r].user, inflight[r].entry) :
              /\ row.project_id = 7
              /\ row.tag_ids = <<3>>
              /\ ~row.synced
              /\ ~row.pending_deletion
        /\ Len(queue) = 3

\* C25: toggl_webhook answers 404 to an unknown token; 400 to a body that
\* is no JSON; 401 to a missing or wrong signature when the workspace has a
\* secret; 200 to an action it does not know.
C25_Responses ==
    call.fn = "toggl_webhook" =>
        LET req    == call.request
            status == call.response.status
        IN  /\ req.token \notin users => status = 404
            /\ (req.token \in users /\ req.body = "malformed") => status = 400
            /\ (/\ req.token \in users
                /\ req.body = "json"
                /\ HasWebhookSecret(req.token)
                /\ req.signature \in {"missing", "invalid"}) => status = 401
            /\ (/\ req.token \in users
                /\ req.body = "json"
                /\ HasWebhookSecret(req.token) => req.signature = "valid"
                /\ req.payload = "entry"
                /\ req.id # NoId
                /\ req.action \notin {"created", "updated", "deleted"}) => status = 200

\* a request the view rejects or ignores
RejectedOrIgnored(req) ==
    \/ req.token \notin users
    \/ req.body = "malformed"
    \/ HasWebhookSecret(req.token) /\ req.signature # "valid"
    \/ req.payload # "entry"
    \/ req.id = NoId
    \/ req.action \notin {"created", "updated", "deleted"}

\* C26: a request with an unknown token, a body that is no JSON or a bad
\* signature, a ping, a request with an unknown action or without id
\* changes no record and enqueues no task.
C26_RejectedChangesNothing ==
    [][(eventsLeft' # eventsLeft /\ RejectedOrIgnored(call'.request)) =>
          /\ entries' = entries
          /\ queue' = queue
          /\ call'.response.outcome # "accepted"]_vars

\* C26 witness: a request with an unknown action for an entry in the store
\* was answered 200, the entry and the queue as the request before left them
C26_UnknownActionIgnored ==
    /\ call.fn = "toggl_webhook"
    /\ call.request.action = "archived"
    /\ call.response.status = 200
    /\ call.response.outcome = "unknown_action"
    /\ entries[<<call.request.token, call.request.id>>].exists
    /\ Len(queue) = 1

\* C27: a lookup that fails leaves the entry's synced flag as it was and the
\* pass goes on with the entries left; at the end of the pass every other
\* entry of the pass, of the same user or of another, is synced exactly
\* when its event is there under the rendering of its description.
C27_ErrorSkipsOneEntry ==
    [][/\ (ValidateStep /\ run'.vresult = "error") =>
            /\ entries' = entries
            /\ run'.pc = "validate"
            /\ run'.todo = run.todo \ {run'.vkey}
       /\ (run.pc = "validate" /\ run'.pc = "validated") =>
            \A k \in run.vstart :
                IF k \in run.verrors THEN entries[k].synced
                ELSE entries[k].synced <=>
                        /\ EventAt(k[1], entries[k].calendar, k[2]).present
                        /\ EventAt(k[1], entries[k].calendar, k[2]).summary =
                              (IF entries[k].description = "" THEN "(No description)"
                               ELSE entries[k].description)]_vars

\* C27 witness: a pass is over in which the lookup of one entry failed, and
\* another entry of the same user and an entry of another user, both
\* drifted, were cleared
C27_OthersStillChecked ==
    /\ run.pc = "validated"
    /\ \E k1 \in run.verrors, k2, k3 \in run.vstart \ run.verrors :
          /\ k2[1] = k1[1]
          /\ k3[1] # k1[1]
          /\ entries[k1].synced
          /\ ~entries[k2].synced
          /\ ~entries[k3].synced

\* C28: a pass looks up only entries that are synced and not pending
\* deletion, of connected users; it writes nothing but synced = false on the
\* entry it looked up, leaves the calendar as it is, and leaves the entries
\* of users who are not connected and the entries pending deletion alone.
C28_PassTouchesOnlySynced ==
    [][/\ ValidateStep =>
            /\ entries[run'.vkey].synced
            /\ ~entries[run'.vkey].pending_deletion
            /\ connected[run'.vkey[1]]
       /\ \A k \in Keys :
            \/ entries'[k] = entries[k]
            \/ /\ ValidateStep
               /\ k = run'.vkey
               /\ entries'[k] = [entries[k] EXCEPT !.synced = FALSE]
       /\ \A k \in Keys :
            (~connected[k[1]] \/ entries[k].pending_deletion) => entries'[k] = entries[k]
       /\ remote' = remote]_vars

\* C28 witness: a pass is over that cleared a drifted entry of a connected
\* user and left alone his entry pending deletion and the drifted entry of
\* a user who is not connected
C28_OthersLeftAlone ==
    /\ run.pc = "validated"
    /\ run.vstart = {<<1, 1>>}
    /\ ~entries[<<1, 1>>].synced
    /\ entries[<<1, 2>>].pending_deletion
    /\ entries[<<1, 2>>].synced
    /\ ~connected[2]
    /\ entries[<<2, 1>>].synced
    /\ ~EventAt(2, "A", 1).present

C30_OneDefaultPerUser ==
    /\ [](\A u \in Users :
            Cardinality({c \in calendars[u] : c.is_default}) <= 1)
    /\ [][call'.fn = "make_default" =>
            \A u \in Users \ {call'.user} : calendars'[u] = calendars[u]]_vars

\* C30 witness: user 1's default was B; a make-default of his calendar A
\* has unmarked B, and user 2's default is still B
C30_DefaultMoved ==
    /\ call.fn = "make_default"
    /\ call.user = 1
    /\ call.calendar = "A"
    /\ call.had = {"B"}
    /\ calendars[1] = {Cal("A", TRUE), Cal("B", FALSE)}
    /\ calendars[2] = {Cal("A", FALSE), Cal("B", TRUE)}

\* C31: a step made for one user (a webhook, a step of an engine run, a
\* deferred re-check, a mapping application) leaves the entries, the
\* deferred tasks and the calendar events of every other user as they were,
\* also when both users have an entry with the same Toggl id: no step
\* changes what belongs to two users, and a step of a task execution
\* changes only what belongs to the user of the task.
C31_UsersIsolated ==
    [][LET Touched ==
             {u \in Users :
                 \/ \E e \in EntryIds : entries'[<<u, e>>] # entries[<<u, e>>]
                 \/ \E c \in CalIds, e \in EntryIds :
                       remote'[<<u, c, e>>] # remote[<<u, c, e>>]
                 \/ {sc \in schedules : sc.args[1] = u}
                       # {sc \in schedules' : sc.args[1] = u}}
       IN  /\ Cardinality(Touched) <= 1
           /\ run' # run => Touched \subseteq {run'.user}]_vars

\* C32: the event an engine run creates is stored under the key "toggl" +
\* the decimal Toggl id of the entry of the run, and different Toggl ids
\* give different keys; an engine update or delete is made after a lookup
\* on that key in the same run and addresses the event that lookup found,
\* and changes no event under another key.
C32_StableKey ==
    [][/\ KeysDistinct
       /\ (run.pc = "create" /\ run'.pc = "finish") =>
            /\ run.data.event_id = GcalEventId(run.entry)
            /\ EventAt(run.user, run.dest, run.entry)'.present
            /\ \A sl \in Slots \ {<<run.user, run.dest, run.entry>>} :
                  remote'[sl] = remote[sl]
       /\ (run.pc \in {"update", "mv_delete", "del_delete"} /\ remote' # remote) =>
            /\ run.calls.find >= 1
            /\ run.existed
            /\ EventAt(run.user, run.db.calendar, run.entry).id = run.cur
            /\ \A sl \in Slots \ {<<run.user, run.db.calendar, run.entry>>} :
                  remote'[sl] = remote[sl]]_vars

\* C32 witness: a run has looked the event up by its key and updated it,
\* after an earlier run created it
C32_UpdatedByKey ==
    /\ run.pc = "done"
    /\ run.calls.find = 1
    /\ run.calls.update = 1
    /\ \E c \in CalIds : EventAt(run.user, c, run.entry).present

\* C33: every adapter operation checks the token before its remote calls:
\* no remote call is made with an expired token; an operation that starts
\* with an expired token refreshes it and writes the refreshed credential
\* to the store before its first remote call; one that starts with a valid
\* token makes no refresh and leaves the stored credential as it was.
C33_RefreshBeforeCall ==
    [][(now' = now /\ call'.fn \in AdapterOps /\ call'.trace # <<"refresh_failed">>) =>
          LET t == call'.trace
          IN  /\ \A i \in 1..Len(t) : t[i] # "remote_expired"
              /\ Expired(call.memory) =>
                    /\ Len(t) >= 3
                    /\ t[1] = "refresh" /\ t[2] = "save" /\ t[3] = "remote"
                    /\ call'.stored = call'.memory
                    /\ call'.stored.token # call.stored.token
                    /\ call'.stored.expiry > now
              /\ ~Expired(call.memory) =>
                    /\ \A i \in 1..Len(t) : t[i] = "remote"
                    /\ call'.stored = call.stored
                    /\ call'.memory = call.memory]_vars

\* C33 witness: update_event found the token expired after the service was
\* built, refreshed it, stored the refreshed credential, and then made its
\* two remote calls
C33_RefreshedThenCalled ==
    /\ call.fn = "update_event"
    /\ call.trace = <<"refresh", "save", "remote", "remote">>
    /\ call.stored = call.memory
    /\ call.stored.token = 2
    /\ now > 0

\* C34: when apply_mappings enqueues its tasks, the last task enqueued for
\* an entry matched by several mappings (the one applied last, the queue
\* being served in order) carries the calendar and colour of the matching
\* mapping with the highest process_order.
C34_HighestAppliedLast ==
    [][\A k \in Keys :
          LET ms   == {m \in mappings[k[1]] : k \in FindMatchingEntries(k[1], m)}
              top  == CHOOSE m \in ms : \A o \in ms : m.process_order >= o.process_order
              mine == {i \in (Len(queue) + 1)..Len(queue') :
                          queue'[i].user = k[1] /\ queue'[i].entry = k[2]}
              last == CHOOSE i \in mine : \A j \in mine : i >= j
          IN  (/\ Len(queue') > Len(queue)
               /\ queue'[Len(queue')].via = "apply"
               /\ Cardinality(ms) > 1)
              => /\ mine # {}
                 /\ queue'[last].gcal = top.gcal
                 /\ queue'[last].color_id = top.color_id]_vars

\* C35: applying a mapping to a synced entry whose event the lookup does
\* not find clears synced and makes no remote update; applying it to an
\* entry that does not exist or is not synced makes no remote call and
\* changes neither the store nor the calendar.
C35_ApplySkipsUnsynced ==
    [][ApplyMappingToEntry =>
          LET t   == Head(queue)
              k   == <<t.user, t.entry>>
              rec == entries[k]
              ev  == IF rec.calendar = NoCal THEN NoEvent
                     ELSE EventAt(t.user, rec.calendar, t.entry)
          IN  /\ (/\ rec.exists /\ rec.synced /\ rec.calendar # NoCal
                   /\ ~ev.present
                   /\ run'.calls.find = 1 /\ ~run'.failed)
                  => /\ ~entries'[k].synced
                     /\ run'.calls.update = 0
                     /\ remote' = remote
              /\ (~rec.exists \/ ~rec.synced)
                  => /\ run'.calls = NoCalls
                     /\ entries' = entries
                     /\ remote' = remote]_vars

\* C36: an entry marked pending_deletion by a delete event stays marked: no
\* step, in particular no created or updated webhook that arrives after
\* the delete, sets pending_deletion back to false.
C36_DeletionSticks ==
    [][\A k \in Keys :
          (entries[k].exists /\ entries[k].pending_deletion)
          => (entries'[k].exists /\ entries'[k].pending_deletion)]_vars

\* C37: the re-check of an entry's latest deferral (its schedule has fired,
\* no newer one is pending), the entry not updated since that deferral, is
\* not deferred again: it passes the gate and goes on to the handlers; and
\* next_run is never before the end of the quiet window, whatever fraction
\* of a second int() cuts off.
C37_RecheckPasses ==
    [][/\ RecheckDue
       /\ (/\ StartRun
           /\ Head(queue).via = "schedule"
           /\ \A sc \in schedules : sc.name # Head(queue).entry
           /\ entries[<<Head(queue).user, Head(queue).entry>>].exists
           /\ attempts[<<Head(queue).user, Head(queue).entry>>].seen =
                 entries[<<Head(queue).user, Head(queue).entry>>].updated_at)
          => run'.pc = "dispatch"]_vars

\* C37 witness: the entry was deferred, not updated since, and its one run
\* past the gate, made for the schedule after the quiet window, is over
C37_RecheckProcessed ==
    /\ run.pc = "done"
    /\ attempts[RunKey].seen = entries[RunKey].updated_at
    /\ attempts[RunKey].runs = 1
    /\ run.since > QCLUSTER_WAIT
    /\ run.since < 2 * QCLUSTER_WAIT
    /\ schedules = {}
    /\ queue = <<>>

\* C38: in every reachable state, for each user and each entry, at most one
\* of the user's calendars holds an event under the entry's key.
C38_OneEventPerKey ==
    \A u \in Users, e \in EntryIds :
        Cardinality({c \in CalIds : EventAt(u, c, e).present}) <= 1

\* a step of a process_time_entry_event execution
ProcessStep ==
    \/ StartRun
    \/ Dispatch
    \/ UpdFind
    \/ MvDelete
    \/ Create
    \/ Update
    \/ DelFind
    \/ DelDelete
    \/ Finish

\* C39: a step of an engine run leaves every entry but the one it processes
\* as it is, and of that one it changes at most synced and calendar:
\* description, start, end, project, tags, pending_deletion and updated_at
\* (and whether the row exists) stay.
C39_RunWritesSyncedAndCalendar ==
    [][ProcessStep =>
          \A k \in Keys :
              /\ entries'[k] = [entries[k] EXCEPT !.synced = entries'[k].synced,
                                                  !.calendar = entries'[k].calendar]
              /\ k # <<run'.user, run'.entry>> => entries'[k] = entries[k]]_vars

\* C39 witness: a run that ended by saving synced and calendar, on an entry
\* that a webhook rewrote while the run was under way and after the clock
\* had moved on since the row's last write
C39_SavedDuringRace ==
    /\ run.pc = "done"
    /\ run.raced
    /\ entries[RunKey].synced
    /\ entries[RunKey].calendar # NoCal
    /\ entries[RunKey].updated_at < now
    /\ entries[RunKey].description # run.before.description

\* the content of an event or of a rendering
Content(x) == <<x.summary, x.start, x.end, x.description>>

\* C40: a handler renders the content it is going to write from the row as
\* it is stored when the handler reads it; the event a create or update
\* writes carries that content; and in a run during which no webhook for
\* the entry came in, the event written carries the content of the row as
\* stored at the moment of the write, whatever the webhook that enqueued
\* the run's task had delivered.
C40_RenderedFromStoredRow ==
    /\ [][(Dispatch /\ run'.pc \in {"create", "upd_find"}) =>
             Content(run'.data) =
                 Content(GetGcalData(run.entry, entries[RunKey], NoColor))]_vars
    /\ [][((Create \/ Update) /\ remote' # remote) =>
             Content(remote'[<<run.user, run.dest, run.entry>>]) = Content(run.data)]_vars
    /\ [][((Create \/ Update) /\ remote' # remote /\ ~run.raced) =>
             /\ remote'[<<run.user, run.dest, run.entry>>].present
             /\ Content(remote'[<<run.user, run.dest, run.entry>>]) =
                   Content(GetGcalData(run.entry, entries[RunKey], NoColor))]_vars

\* C40 witness: the task of an earlier webhook, which had delivered another
\* description, ran after a later webhook had written the row (the later
\* one's task is still waiting), and the event it wrote carries the
\* description of the row
C40_LaterPayloadWritten ==
    /\ run.pc = "done"
    /\ ~run.raced
    /\ run.calls.create = 1
    /\ attempts[RunKey].ran # NotSent
    /\ attempts[RunKey].ran # entries[RunKey].description
    /\ attempts[RunKey].sent = <<entries[RunKey].description>>
    /\ entries[RunKey].calendar # NoCal
    /\ EventAt(run.user, entries[RunKey].calendar, run.entry).present
    /\ EventAt(run.user, entries[RunKey].calendar, run.entry).summary =
          Summary(entries[RunKey].description)

====
